---- MODULE Spec2Model ----
(***************************************************************************)
(* Event intake, deduplication and per-task conversation state of the      *)
(* Todoist AI agent (TypeScript sources under src/src and the services of  *)
(* src/unnamed/part_008).                                                  *)
(*                                                                         *)
(* Text is modelled as a sequence of tokens; String.startsWith is the      *)
(* prefix relation on such sequences.  Every `await` of the source is a    *)
(* step boundary: an action completes the awaited operation and runs the   *)
(* synchronous code that follows it up to the next await.                  *)
(***************************************************************************)
EXTENDS Integers, Sequences, FiniteSets, TLC

VARIABLES
  now,                \* wall clock (new Date())
  maxMessages,        \* Config.maxMessages returned by getConfig
  aiLabel,            \* Config.aiLabel returned by getConfig
  trackerTasks,       \* the tracker's tasks, by id
  trackerComments,    \* the tracker's comments, in the order it returns them
  nextCommentId,      \* the tracker's comment id counter
  pushes,             \* push notifications emitted and not yet delivered, oldest first
  store,              \* conversations.json: task id -> Conversation or NoConv
  writeQueue,         \* operations chained on ConversationRepository.writeLock
  writeLockRejected,  \* the writeLock promise chain has rejected
  lastPollTime,       \* PollingHandler.lastPollTime
  processedComments,  \* PollingHandler.processedComments, in insertion order
  proc,               \* the in-flight handler invocations
  hist,               \* observation log of the calls made so far
  budget,             \* what the environment may still do (bounds the model)
  pushUp,             \* the push transport is registered and reachable
  pm,                 \* addMessage harness: the maxMessages argument
  pconv,              \* addMessage harness: the conversation built so far
  plog,               \* addMessage harness: every message appended so far
  calls,              \* repository harness: the save and cleanup calls issued
  http,               \* server harness: the build, its requests, its job queue
  ai                  \* orchestrator harness: the processTask calls in flight

vars == << now, maxMessages, aiLabel, trackerTasks, trackerComments, nextCommentId,
           pushes, store, writeQueue, writeLockRejected, lastPollTime,
           processedComments, proc, hist, budget, pushUp, pm, pconv, plog, ai,
           calls, http >>

envVars == << now, trackerTasks, trackerComments, nextCommentId, pushes >>
harnessVars == << pm, pconv, plog, ai, calls, http >>
fixedVars == << maxMessages, aiLabel, pushUp >>

----------------------------------------------------------------------------
(* Bounds of the model *)

MaxUserComments == 2
MaxPolls == 2
MaxJointComments == 1
MaxJointPolls == 2
MaxFailures == 1
MaxPollFailures == 1
MaxEngineFailures == 2
MaxCfgMessages == 3
MaxAppend == 6
MaxReopens == 1
MaxPending == 2
MaxLabelComments == 1
MaxLabelFailures == 1
MaxLiveComments == 1
MaxLiveFailures == 1

----------------------------------------------------------------------------
(* Program constants *)

AI_INDICATOR == << "AI_INDICATOR" >>
ERROR_PREFIX == << "ERROR_PREFIX" >>
AI_LABEL == "AI"
\* a value of the AI_LABEL environment variable other than the default
OTHER_LABEL == "Bot"
MAX_PROCESSED_COMMENTS == 10000
EVICT_COUNT == 1000
DEFAULT_MAX_MESSAGES == 20
EPOCH == 0

----------------------------------------------------------------------------
(* Text helpers *)

StartsWith(s, p) ==
  /\ Len(s) >= Len(p)
  /\ SubSeq(s, 1, Len(p)) = p

IsSpace(tok) == tok \in { " ", "\n", "" }

RECURSIVE TrimLeft(_)
TrimLeft(s) ==
  IF s # << >> /\ IsSpace(Head(s)) THEN TrimLeft(Tail(s)) ELSE s

RECURSIVE TrimRight(_)
TrimRight(s) ==
  IF s # << >> /\ IsSpace(s[Len(s)]) THEN TrimRight(SubSeq(s, 1, Len(s) - 1)) ELSE s

Trim(s) == TrimLeft(TrimRight(s))

----------------------------------------------------------------------------
(* ConversationRepository: pure part *)

NoConv == [absent |-> TRUE]

\* Array.prototype.slice(start) for a negative or zero start
SliceFrom(arr, start) ==
  LET n == Len(arr)
      from == IF start < 0 THEN (IF n + start < 0 THEN 0 ELSE n + start) ELSE
              (IF start > n THEN n ELSE start)
  IN  SubSeq(arr, from + 1, n)

createEmpty(t) ==
  [title |-> << >>, messages |-> << >>, createdAt |-> t, lastActivityAt |-> t]

addMessage_KeepsOneTooMany(conversation, role, content, max) ==
  LET messages == Append(conversation.messages, [role |-> role, content |-> content])
  IN  IF Len(messages) <= max
        THEN [conversation EXCEPT !.messages = messages]
        ELSE [conversation EXCEPT !.messages =
                << messages[1] >> \o SliceFrom(messages, 0 - max)]

addMessage(conversation, role, content, max) ==
  LET messages == Append(conversation.messages, [role |-> role, content |-> content])
  IN  IF Len(messages) <= max
        THEN [conversation EXCEPT !.messages = messages]
        ELSE [conversation EXCEPT !.messages =
                << messages[1] >> \o SliceFrom(messages, 0 - (max - 1))]

----------------------------------------------------------------------------
(* State shapes *)

Tasks == { "t1" }
\* repository harness: the keys of conversations.json and the callers
StoreKeys == { "t1", "t2", "t3" }
CallIds == { "c1", "c2", "c3" }
NoCall == [state |-> "none"]
NoCalls == [c \in CallIds |-> NoCall]
\* server harness: the requests sent to POST /webhook
ReqIds == { "r1", "r2" }
NoReq ==
  [ phase |-> "idle", sig |-> << >>, hasSig |-> FALSE, raw |-> << >>,
    hasRaw |-> FALSE, status |-> 0, started |-> FALSE, threw |-> FALSE,
    unhandled |-> FALSE ]
\* the jobs handed to the job queue of createApp
JobIds == ReqIds \cup { "r3" }
NoHttp ==
  [ build |-> "none", queue |-> << >>, processing |-> FALSE, drains |-> 0,
    order |-> << >>, starts |-> << >>,
    reqs |-> [r \in JobIds |-> NoReq] ]
\* orchestrator harness: the processTask calls of AIOrchestrator
RunIds == { "a1", "a2" }
NoRun ==
  [ pc |-> "idle", analysis |-> << >>, claudeCalls |-> 0, geminiFailed |-> FALSE,
    claudeFailed |-> FALSE, outcome |-> "none", result |-> << >> ]
NoRuns == [a \in RunIds |-> NoRun]
WebhookProcs == { "w1" }
PollProcs == { "p1", "p2" }
\* two setImmediate callbacks in flight at once
DoneProcs == { "w1", "w2" }
Procs == WebhookProcs \cup PollProcs \cup DoneProcs

NoTask == [absent |-> TRUE]

UserTexts ==
  { << "hello" >>,
    AI_INDICATOR \o << "\n\n", "quoted" >>,
    ERROR_PREFIX \o << " ", "quoted" >> }

Idle ==
  [ pc |-> "idle", op |-> "", ret |-> "", taskId |-> "", task |-> NoTask,
    tasks |-> << >>, cur |-> 0, comments |-> << >>, comment |-> << >>,
    cid |-> 0, conv |-> NoConv, error |-> << >>, failed |-> FALSE,
    execFailed |-> FALSE, errPosts |-> 0, isNew |-> FALSE,
    ptask |-> NoTask, labels |-> { }, older |-> { } ]

EnginePcs ==
  { "pnt_load", "pnt_exec", "pnt_save", "pnt_post",
    "pc_getTask", "pc_load", "pc_exec", "pc_save", "pc_post", "pc_catch_getTask",
    "he_post", "htc_load", "htc_post", "htc_cleanup" }

Sat(n) == IF n >= 2 THEN 2 ELSE n + 1

Bump(f, k) == IF k \in DOMAIN f THEN [f EXCEPT ![k] = Sat(@)] ELSE f @@ (k :> 1)

Count(f, k) == IF k \in DOMAIN f THEN f[k] ELSE 0

HistInit ==
  [ anchors |-> [t \in Tasks |-> 0],
    pntExec |-> [t \in Tasks |-> 0],
    pcCalls |-> << >>,
    markerPassed |-> FALSE,
    systemPassed |-> FALSE,
    engineRejected |-> FALSE,
    recovered |-> FALSE,
    errPostsMax |-> 0,
    errPostFailed |-> FALSE,
    execFail |-> { },
    seen |-> { },
    midPass |-> { },
    suppressed |-> { },
    headThrew |-> FALSE,
    pollFailed |-> { },
    stale |-> { } ]

\* ghost: p takes up new work, so nothing it does from now on dates from
\* before a completion
Fresh(h, p) == [h EXCEPT !.stale = { f \in @ : f.p # p }]

CanFail == budget.failures > 0
Failed == budget' = [budget EXCEPT !.failures = @ - 1]

----------------------------------------------------------------------------
(* WebhookHandler: the synchronous head of handleWebhook *)

IsMarked(content) ==
  StartsWith(content, AI_INDICATOR) \/ StartsWith(content, ERROR_PREFIX)

Mentions(content, p) ==
  \E i \in 1..Len(content) :
    i + Len(p) - 1 <= Len(content) /\ SubSeq(content, i, i + Len(p) - 1) = p

\* how a comment is marked: an error reply posted through postComment
\* starts with AI_INDICATOR and carries ERROR_PREFIX after it
MarkerOf(content) ==
  IF StartsWith(content, AI_INDICATOR)
    THEN (IF Mentions(content, ERROR_PREFIX) THEN "ai+error" ELSE "ai")
  ELSE IF StartsWith(content, ERROR_PREFIX) THEN "error" ELSE "none"

\* an adapter examines a comment that carries a reserved marker
RecordSeen(h, chan, origin, content) ==
  IF IsMarked(content)
    THEN [h EXCEPT !.seen = @ \cup { << chan, origin, MarkerOf(content) >> }]
    ELSE h

RECURSIVE RecordSeenAll(_, _, _)
RecordSeenAll(h, chan, comments) ==
  IF comments = << >> THEN h
  ELSE RecordSeenAll(RecordSeen(h, chan, Head(comments).origin, Head(comments).content),
                     chan, Tail(comments))

RecognizedEvents == { "item:added", "item:updated", "note:added", "item:completed" }

\* every branch of handleWebhook starts by reading a property of event_data:
\* without event_data the read throws, and the catch re-throws
HeadThrows(e) == e.event_name \in RecognizedEvents /\ ~ e.data

\* handleWebhook from its entry up to its first await (or its return)
handleWebhook(e) ==
  LET r == [Idle EXCEPT !.cid = e.noteId, !.comment = e.content]
  IN  CASE HeadThrows(e) -> Idle
        [] e.event_name = "item:added" ->
             IF AI_LABEL \notin e.labels \/ e.id = "" THEN Idle
             ELSE [r EXCEPT !.pc = "wh_added_getTask", !.taskId = e.id,
                            !.labels = e.labels]
        [] e.event_name = "item:updated" ->
             IF AI_LABEL \notin e.labels \/ e.id = "" THEN Idle
             ELSE [r EXCEPT !.pc = "wh_upd_exists", !.taskId = e.id,
                            !.labels = e.labels]
        [] e.event_name = "note:added" ->
             IF e.item_id = "" \/ e.content = << >> THEN Idle
             ELSE IF StartsWith(e.content, AI_INDICATOR) THEN Idle
             ELSE IF StartsWith(e.content, ERROR_PREFIX) THEN Idle
             ELSE [r EXCEPT !.pc = "wh_note_label", !.taskId = e.item_id]
        [] e.event_name = "item:completed" ->
             IF e.id = "" THEN Idle
             ELSE [r EXCEPT !.pc = "wh_done_label", !.taskId = e.id]
        [] OTHER -> Idle

----------------------------------------------------------------------------
(* The tracker (external service) and its users *)

Labelled(task) == AI_LABEL \in task.labels

\* the test of TodoistService.hasAiLabel on the task it fetched
hasAiLabel(task) == aiLabel \in task.labels

CommentOrigin(cid) ==
  IF \E i \in 1..Len(trackerComments) : trackerComments[i].id = cid
    THEN (CHOOSE c \in { trackerComments[i] : i \in 1..Len(trackerComments) } : c.id = cid).origin
    ELSE "user"

NewTask(t, labels, descr, at) ==
  [ id |-> t, content |-> << "title" >>, description |-> descr, labels |-> labels,
    added_at |-> at, is_deleted |-> FALSE, checked |-> FALSE ]

PushEvent(name, id, itemId, content, labels, noteId) ==
  [ event_name |-> name, data |-> TRUE, id |-> id, item_id |-> itemId,
    content |-> content, labels |-> labels, noteId |-> noteId ]

\* what the tracker does with POST /comments
TrackerAddComment(comments, id, taskId, content, at, origin) ==
  Append(comments, [ id |-> id, task_id |-> taskId, content |-> content,
                     posted_at |-> at, origin |-> origin ])

\* A notification is emitted.  Unless it is lost it reaches POST /webhook;
\* one that handleWebhook returns from without awaiting anything is consumed on
\* arrival, the others are queued until their setImmediate callback runs.
Arrives(lost) == pushUp /\ ~ lost

Emitted(q, e, lost) ==
  IF Arrives(lost) /\ handleWebhook(e) # Idle THEN Append(q, e) ELSE q

Noticed(h, e, origin, lost) ==
  IF Arrives(lost) /\ handleWebhook(e) = Idle /\ e.event_name = "note:added"
    THEN RecordSeen(h, "push", origin, e.content) ELSE h

Emit(e, lost) == pushes' = Emitted(pushes, e, lost)

\* a poll pass has had the tracker's answer to its task fetch and has not ended
PassInProgress == \E p \in PollProcs : proc[p].pc # "idle"

CreateTask(t, labels, lost) ==
  /\ trackerTasks[t] = NoTask
  /\ now' = now + 1
  /\ trackerTasks' = [trackerTasks EXCEPT ![t] =
       NewTask(t, labels, IF labels = { } THEN << >> ELSE << "details" >>, now + 1)]
  /\ Emit(PushEvent("item:added", t, "", << >>, labels, 0), lost)
  /\ hist' = IF labels # { } /\ PassInProgress /\ ~ Arrives(lost)
               THEN [hist EXCEPT !.midPass = @ \cup { t }] ELSE hist
  /\ UNCHANGED << fixedVars, trackerComments, nextCommentId, store, writeQueue,
                  writeLockRejected, lastPollTime, processedComments, proc,
                  budget, harnessVars >>

RelabelTask(t, lost) ==
  /\ trackerTasks[t] # NoTask
  /\ ~ Labelled(trackerTasks[t])
  /\ ~ trackerTasks[t].checked
  /\ trackerTasks' = [trackerTasks EXCEPT ![t].labels = { AI_LABEL }]
  /\ Emit(PushEvent("item:updated", t, "", << >>, { AI_LABEL }, 0), lost)
  /\ UNCHANGED << now, fixedVars, trackerComments, nextCommentId, store, writeQueue,
                  writeLockRejected, lastPollTime, processedComments, proc, hist,
                  budget, harnessVars >>

\* event_data without any of the fields handleWebhook reads
WithoutFields(name) == PushEvent(name, "", "", << >>, { }, 0)

\* request bodies the tracker does not send: an event name no branch matches,
\* a recognized one without its task id, its comment's task id or its text,
\* and a recognized one without event_data
MalformedEvents ==
  { WithoutFields("item:deleted"),
    [WithoutFields("item:deleted") EXCEPT !.data = FALSE],
    PushEvent("note:updated", "", "t1", << "hello" >>, { }, 0),
    PushEvent("item:added", "", "", << >>, { AI_LABEL }, 0),
    PushEvent("item:updated", "", "", << >>, { AI_LABEL }, 0),
    WithoutFields("item:completed"),
    PushEvent("note:added", "", "", << "hello" >>, { }, 0),
    PushEvent("note:added", "", "t1", << >>, { }, 0),
    [WithoutFields("item:added") EXCEPT !.data = FALSE],
    [WithoutFields("note:added") EXCEPT !.data = FALSE],
    [WithoutFields("item:completed") EXCEPT !.data = FALSE] }

\* POST /webhook with such a body: the route hands req.body to handleWebhook
\* as it is
MalformedPush(e) ==
  /\ pushUp
  /\ pushes = << >>
  /\ pushes' = << e >>
  /\ UNCHANGED << now, fixedVars, trackerTasks, trackerComments, nextCommentId,
                  store, writeQueue, writeLockRejected, lastPollTime,
                  processedComments, proc, hist, budget, harnessVars >>

\* the user replaces the labels of a task
LabelTask(t, labels, lost) ==
  /\ trackerTasks[t] # NoTask
  /\ ~ trackerTasks[t].checked
  /\ trackerTasks[t].labels # labels
  /\ Len(pushes) < MaxPending
  /\ trackerTasks' = [trackerTasks EXCEPT ![t].labels = labels]
  /\ Emit(PushEvent("item:updated", t, "", << >>, labels, 0), lost)
  /\ UNCHANGED << now, fixedVars, trackerComments, nextCommentId, store, writeQueue,
                  writeLockRejected, lastPollTime, processedComments, proc, hist,
                  budget, harnessVars >>

UserComment(t, text, lost) ==
  /\ trackerTasks[t] # NoTask
  /\ ~ trackerTasks[t].checked
  /\ budget.comments > 0
  /\ now' = now + 1
  /\ trackerComments' =
       TrackerAddComment(trackerComments, nextCommentId, t, text, now + 1, "user")
  /\ nextCommentId' = nextCommentId + 1
  /\ Emit(PushEvent("note:added", "", t, text, { }, nextCommentId), lost)
  /\ hist' = Noticed(hist, PushEvent("note:added", "", t, text, { }, nextCommentId),
                     "user", lost)
  /\ budget' = [budget EXCEPT !.comments = @ - 1]
  /\ UNCHANGED << fixedVars, trackerTasks, store, writeQueue, writeLockRejected,
                  lastPollTime, processedComments, proc, harnessVars >>

CompleteTask(t, lost) ==
  /\ trackerTasks[t] # NoTask
  /\ ~ trackerTasks[t].checked
  /\ trackerTasks' = [trackerTasks EXCEPT ![t].checked = TRUE]
  /\ Emit(PushEvent("item:completed", t, "", << >>, { }, 0), lost)
  /\ UNCHANGED << now, fixedVars, trackerComments, nextCommentId, store, writeQueue,
                  writeLockRejected, lastPollTime, processedComments, proc, hist,
                  budget, harnessVars >>

\* the user reopens a completed task; the tracker notifies with an event
\* name that no branch of handleWebhook matches
ReopenTask(t) ==
  /\ trackerTasks[t] # NoTask
  /\ trackerTasks[t].checked
  /\ budget.reopens > 0
  /\ budget' = [budget EXCEPT !.reopens = @ - 1]
  /\ trackerTasks' = [trackerTasks EXCEPT ![t].checked = FALSE]
  /\ Emit(PushEvent("item:uncompleted", t, "", << >>, { }, 0), FALSE)
  /\ UNCHANGED << now, fixedVars, trackerComments, nextCommentId, store, writeQueue,
                  writeLockRejected, lastPollTime, processedComments, proc, hist,
                  harnessVars >>

----------------------------------------------------------------------------
(* Calls into the engine and returns from it.  A context carries the state *)
(* that synchronous code touches between two awaits.                       *)

Ctx(r, pcs, lpt, h) == [ r |-> r, pcs |-> pcs, lpt |-> lpt, hist |-> h ]

RecordProcessComment(h, chan, cid, content) ==
  [h EXCEPT !.pcCalls = Bump(@, << chan, cid >>),
            !.markerPassed = @ \/ IsMarked(content),
            !.systemPassed = @ \/ CommentOrigin(cid) = "system"]

Truthy(id) == id # 0

\* a cleanup that starts when the ceiling is reached
addProcessedComment_AtCeiling(pcs, commentId) ==
  LET added == IF \E i \in 1..Len(pcs) : pcs[i] = commentId
                 THEN pcs ELSE Append(pcs, commentId)
  IN  IF Len(added) >= MAX_PROCESSED_COMMENTS
        THEN SubSeq(added, EVICT_COUNT + 1, Len(added))
        ELSE added

addProcessedComment(pcs, commentId) ==
  LET added == IF \E i \in 1..Len(pcs) : pcs[i] = commentId
                 THEN pcs ELSE Append(pcs, commentId)
      n == IF Len(added) < EVICT_COUNT THEN Len(added) ELSE EVICT_COUNT
  IN  IF Len(added) > MAX_PROCESSED_COMMENTS
        THEN SelectSeq(SubSeq(added, 1, n), LAMBDA v : ~ Truthy(v))
               \o SubSeq(added, n + 1, Len(added))
        ELSE added

CallProcessNewTask(r, task, ret) ==
  [r EXCEPT !.pc = "pnt_load", !.op = "processNewTask", !.ret = ret,
            !.task = task, !.taskId = task.id, !.conv = NoConv, !.error = << >>,
            !.failed = FALSE, !.execFailed = FALSE, !.errPosts = 0]

CallProcessComment(r, taskId, content, cid, ret) ==
  [r EXCEPT !.pc = "pc_getTask", !.op = "processComment", !.ret = ret,
            !.task = NoTask, !.taskId = taskId, !.comment = content, !.cid = cid,
            !.conv = NoConv, !.error = << >>, !.failed = FALSE,
            !.execFailed = FALSE, !.errPosts = 0]

CallHandleTaskCompletion(r, taskId, ret) ==
  [r EXCEPT !.pc = "htc_load", !.op = "handleTaskCompletion", !.ret = ret,
            !.task = NoTask, !.taskId = taskId, !.conv = NoConv, !.error = << >>,
            !.failed = FALSE, !.execFailed = FALSE, !.errPosts = 0]

\* poll(): the for loop over tasks, and the assignment that ends the pass
PollNextTask(c) ==
  IF c.r.tasks # << >>
    THEN [c EXCEPT !.r = [c.r EXCEPT !.pc = "pt_exists", !.op = "", !.ret = "",
                                     !.ptask = Head(c.r.tasks),
                                     !.task = NoTask,
                                     !.taskId = Head(c.r.tasks).id,
                                     !.tasks = Tail(c.r.tasks),
                                     !.isNew = Head(c.r.tasks).added_at > c.lpt,
                                     !.comments = << >>, !.comment = << >>,
                                     !.cid = 0, !.conv = NoConv]]
    ELSE [c EXCEPT !.r = Idle, !.lpt = c.r.cur]

\* checkForNewComments: the for loop over the new comments
PollNextComment(c) ==
  IF c.r.comments # << >>
    THEN LET comment == Head(c.r.comments)
         IN  [c EXCEPT !.pcs = addProcessedComment(c.pcs, comment.id),
                       !.hist = RecordProcessComment(c.hist, "poll", comment.id,
                                                     comment.content),
                       !.r = CallProcessComment(
                               [c.r EXCEPT !.comments = Tail(c.r.comments)],
                               c.r.ptask.id, comment.content, comment.id,
                               "poll_comments")]
    ELSE PollNextTask(c)

\* ghost: the comment r failed on, and the passes that were already running
\* when the pass of r started
FailedInPass(r) == [ cid |-> r.cid, exempt |-> r.older ]

\* the engine operation of c.r resolves: control goes back to its caller
Return(c) ==
  LET h == [c.hist EXCEPT !.recovered = @ \/ c.r.failed,
                          !.pollFailed = IF c.r.failed /\ c.r.ret = "poll_comments"
                                           THEN @ \cup { FailedInPass(c.r) } ELSE @]
      d == [c EXCEPT !.hist = h]
  IN  CASE c.r.ret = "poll_comments" -> PollNextComment(d)
        [] c.r.ret = "poll_tasks"    -> PollNextTask(d)
        [] OTHER                     -> [d EXCEPT !.r = Idle]

\* the engine operation of c.r rejects: processTask rejects and poll() logs
\* it (polling.handler.ts:31-37); handleWebhook logs and re-throws
Reject(c) ==
  LET d == [c EXCEPT !.hist = [c.hist EXCEPT !.engineRejected = TRUE,
                                             !.pollFailed = IF c.r.ret = "poll_comments"
                                                              THEN @ \cup { FailedInPass(c.r) }
                                                              ELSE @]]
  IN  IF c.r.ret \in { "poll_comments", "poll_tasks" }
        THEN PollNextTask(d)
        ELSE [d EXCEPT !.r = Idle]

Commit(p, c) ==
  /\ proc' = [proc EXCEPT ![p] = c.r]
  /\ processedComments' = c.pcs
  /\ lastPollTime' = c.lpt
  /\ hist' = c.hist

Here(p) == Ctx(proc[p], processedComments, lastPollTime, hist)

----------------------------------------------------------------------------
(* ConversationRepository: save and cleanup chained on writeLock *)

WriteOp(p, kind, taskId, conv) ==
  [ p |-> p, kind |-> kind, taskId |-> taskId, conv |-> conv ]

\* cleanup that empties the conversation and keeps its key
DocApply_KeepsKey(data, op) ==
  IF op.kind = "save"
    THEN [data EXCEPT ![op.taskId] = [op.conv EXCEPT !.lastActivityAt = now]]
    ELSE [data EXCEPT ![op.taskId] = createEmpty(now)]

\* save that stores the conversation as the caller passed it
DocApply_Unstamped(data, op) ==
  IF op.kind = "save"
    THEN [data EXCEPT ![op.taskId] = op.conv]
    ELSE [data EXCEPT ![op.taskId] = NoConv]

\* the document a chained operation writes, from the document it read
DocApply(data, op) ==
  IF op.kind = "save"
    THEN [data EXCEPT ![op.taskId] = [op.conv EXCEPT !.lastActivityAt = now]]
    ELSE [data EXCEPT ![op.taskId] = NoConv]

StoreApply(op) == DocApply(store, op)

load(taskId) == IF store[taskId] # NoConv THEN store[taskId] ELSE createEmpty(now)

\* exists() that takes a conversation without messages for an absent one
exists_NonEmpty(taskId) == store[taskId] # NoConv /\ store[taskId].messages # << >>

exists(taskId) == store[taskId] # NoConv

\* the chained operation of p is at the head of the chain and runs
WriteOk(p) ==
  /\ writeQueue # << >>
  /\ Head(writeQueue).p = p
  /\ ~ writeLockRejected
  /\ store' = StoreApply(Head(writeQueue))
  /\ writeQueue' = Tail(writeQueue)
  /\ UNCHANGED << writeLockRejected, budget >>

\* writeFile (or mkdir) fails, or the chain had already rejected: the chained
\* operation rejects and leaves the chain rejected
WriteFails(p) ==
  /\ writeQueue # << >>
  /\ Head(writeQueue).p = p
  /\ \/ writeLockRejected /\ UNCHANGED budget
     \/ ~ writeLockRejected /\ budget.disk /\ CanFail /\ Failed
  /\ writeLockRejected' = TRUE
  /\ writeQueue' = Tail(writeQueue)
  /\ UNCHANGED store

----------------------------------------------------------------------------
(* PollingHandler *)

RECURSIVE SetToSeq(_)
SetToSeq(S) ==
  IF S = { } THEN << >>
  ELSE LET x == CHOOSE y \in S : TRUE IN << x >> \o SetToSeq(S \ { x })

\* GET /tasks?label=AI followed by the filter of fetchAiTasks
fetchAiTasks ==
  SetToSeq({ trackerTasks[t] : t \in { u \in Tasks :
                /\ trackerTasks[u] # NoTask
                /\ Labelled(trackerTasks[u])
                /\ ~ trackerTasks[u].is_deleted
                /\ ~ trackerTasks[u].checked } })

fetchComments(taskId) == SelectSeq(trackerComments, LAMBDA c : c.task_id = taskId)

\* the tracker answers GET /comments in an order of its own; filter keeps
\* the relative order of what it keeps, so the orders of the filtered array
\* are the orders of the answer
Shuffles(s) ==
  IF s = << >> THEN { << >> }
  ELSE { [i \in 1..Len(s) |-> s[f[i]]] : f \in Permutations(1..Len(s)) }

SortByPostedAt_Unsorted(s) == s

RECURSIVE InsertByPostedAt(_, _)
InsertByPostedAt(sorted, c) ==
  IF sorted = << >> THEN << c >>
  ELSE IF Head(sorted).posted_at <= c.posted_at
         THEN << Head(sorted) >> \o InsertByPostedAt(Tail(sorted), c)
         ELSE << c >> \o sorted

RECURSIVE SortByPostedAt(_)
SortByPostedAt(s) ==
  IF s = << >> THEN << >>
  ELSE InsertByPostedAt(SortByPostedAt(SubSeq(s, 1, Len(s) - 1)), s[Len(s)])

NewComments_NoErrorPrefixCheck(comments, pcs) ==
  SelectSeq(comments, LAMBDA c :
    /\ ~ \E i \in 1..Len(pcs) : pcs[i] = c.id
    /\ ~ StartsWith(c.content, AI_INDICATOR))

NewComments(comments, pcs) ==
  SelectSeq(comments, LAMBDA c :
    /\ ~ \E i \in 1..Len(pcs) : pcs[i] = c.id
    /\ ~ StartsWith(c.content, AI_INDICATOR)
    /\ ~ StartsWith(c.content, ERROR_PREFIX))

\* setInterval / the initial call of startPoller: poll() starts and awaits
\* the task fetch.  The tracker answers the request now; the answer reaches
\* the code after `await`, in PollFetch.
RunningPasses == { q \in PollProcs : proc[q].pc # "idle" }

StartPoll(p) ==
  /\ p \in PollProcs
  /\ proc[p].pc = "idle"
  /\ p = "p2" => proc["p1"].pc # "idle"
  /\ proc' = [q \in Procs |->
                IF q = p
                  THEN [Idle EXCEPT !.pc = "poll_fetch", !.tasks = fetchAiTasks,
                                    !.older = RunningPasses \ { p }]
                  ELSE [proc[q] EXCEPT !.older = @ \ { p }]]
  /\ hist' = [Fresh(hist, p) EXCEPT !.pollFailed =
                { [ cid |-> f.cid, exempt |-> f.exempt \ { p } ] : f \in @ }]
  /\ UNCHANGED << envVars, fixedVars, store, writeQueue, writeLockRejected,
                  lastPollTime, processedComments, harnessVars >>

PollTick(p) ==
  /\ budget.polls > 0
  /\ budget' = [budget EXCEPT !.polls = @ - 1]
  /\ StartPoll(p)

\* the interval timer keeps firing for as long as the process lives
TimerTick(p) == StartPoll(p) /\ UNCHANGED budget

PollFetch(p) ==
  /\ proc[p].pc = "poll_fetch"
  /\ \E ok \in BOOLEAN :
       /\ IF ok THEN UNCHANGED budget ELSE CanFail /\ Failed
       /\ LET tasks == IF ok THEN proc[p].tasks ELSE << >>
              r == [proc[p] EXCEPT !.tasks = tasks, !.cur = now]
          IN  Commit(p, PollNextTask(Ctx(r, processedComments, lastPollTime, hist)))
  /\ UNCHANGED << envVars, fixedVars, store, writeQueue, writeLockRejected,
                  harnessVars >>

\* processTask after `await this.conversations.exists(task.id)`
PtExists(p) ==
  /\ proc[p].pc = "pt_exists"
  /\ LET r == proc[p]
         alreadyProcessed == exists(r.ptask.id)
     IN  IF r.isNew /\ ~ alreadyProcessed
           THEN /\ proc' = [proc EXCEPT ![p] =
                              CallProcessNewTask(r, r.ptask, "poll_tasks")]
                /\ UNCHANGED writeQueue
         ELSE IF ~ r.isNew /\ ~ alreadyProcessed
           THEN /\ proc' = [proc EXCEPT ![p].pc = "pt_save"]
                /\ writeQueue' = Append(writeQueue,
                     WriteOp(p, "save", r.ptask.id,
                       [ title |-> r.ptask.content, messages |-> << >>,
                         createdAt |-> r.ptask.added_at, lastActivityAt |-> now ]))
         ELSE /\ proc' = [proc EXCEPT ![p].pc = "cc_fetch"]
              /\ UNCHANGED writeQueue
  /\ UNCHANGED << envVars, fixedVars, store, writeLockRejected, lastPollTime,
                  processedComments, hist, budget, harnessVars >>

\* the save that marks an old task as seen settles; a rejection is caught
\* by the try/catch around processTask
PtSave(p) ==
  /\ proc[p].pc = "pt_save"
  /\ WriteOk(p) \/ WriteFails(p)
  /\ Commit(p, PollNextTask(Here(p)))
  /\ UNCHANGED << envVars, fixedVars, harnessVars >>

\* checkForNewComments after `await this.fetchComments(task.id)`
CcFetch(p) ==
  /\ proc[p].pc = "cc_fetch"
  /\ \E ok \in BOOLEAN :
       /\ IF ok THEN UNCHANGED budget ELSE CanFail /\ Failed
       /\ LET comments == IF ok THEN fetchComments(proc[p].ptask.id) ELSE << >>
          IN  \E filtered \in Shuffles(NewComments(comments, processedComments)) :
                LET newComments == SortByPostedAt(filtered)
                    r == [proc[p] EXCEPT !.comments = newComments]
                IN  Commit(p, PollNextComment(Ctx(r, processedComments, lastPollTime,
                                                  RecordSeenAll(hist, "poll", comments))))
  /\ UNCHANGED << envVars, fixedVars, store, writeQueue, writeLockRejected,
                  harnessVars >>

----------------------------------------------------------------------------
(* TodoistService *)

PostedContent_Raw(content) == content

PostedContent(content) == AI_INDICATOR \o << "\n\n" >> \o content

ErrorReply(message) ==
  ERROR_PREFIX \o << " " >> \o message \o << ". Retry by adding a comment." >>

\* POST /comments succeeds: the tracker stores the comment and notifies.  A
\* notification that handleWebhook discards leaves the state a lost one
\* leaves, so the callers take the notification of a reply as delivered.
PostCommentOk(taskId, content, lost) ==
  /\ trackerComments' =
       TrackerAddComment(trackerComments, nextCommentId, taskId,
                         PostedContent(content), now, "system")
  /\ nextCommentId' = nextCommentId + 1
  /\ Emit(PushEvent("note:added", "", taskId, PostedContent(content), { },
                    nextCommentId), lost)
  /\ UNCHANGED << now, trackerTasks, budget >>

\* the observation log after the notification of that comment
Posted(h, taskId, content, lost) ==
  Noticed(h, PushEvent("note:added", "", taskId, PostedContent(content), { },
                       nextCommentId), "system", lost)

PostCommentFails ==
  /\ CanFail /\ Failed
  /\ UNCHANGED envVars

GetTaskOk(taskId) == trackerTasks[taskId] # NoTask

\* GET /tasks/:id rejects: the task is unknown to the tracker, or the request fails
GetTaskFails(taskId) ==
  \/ trackerTasks[taskId] = NoTask /\ UNCHANGED budget
  \/ trackerTasks[taskId] # NoTask /\ CanFail /\ Failed

----------------------------------------------------------------------------
(* WebhookHandler *)

\* setImmediate callback of POST /webhook: the oldest queued notification
\* is handed to handleWebhook
DeliverPush(w, e) ==
  /\ w \in WebhookProcs \cup DoneProcs
  /\ proc[w].pc = "idle"
  /\ pushes # << >>
  /\ e = Head(pushes)
  /\ pushes' = Tail(pushes)
  /\ proc' = [proc EXCEPT ![w] = handleWebhook(e)]
  /\ hist' = IF HeadThrows(e) THEN [Fresh(hist, w) EXCEPT !.headThrew = TRUE]
             ELSE IF e.event_name = "note:added"
               THEN RecordSeen(Fresh(hist, w), "push", CommentOrigin(e.noteId),
                               e.content)
               ELSE Fresh(hist, w)
  /\ UNCHANGED << now, trackerTasks, trackerComments, nextCommentId, fixedVars,
                  store, writeQueue, writeLockRejected, lastPollTime,
                  processedComments, budget, harnessVars >>

\* item:added / item:updated after `await this.todoist.getTask(id)`; a
\* rejection is logged and re-thrown to the server's catch
WhGetTask(w) ==
  /\ proc[w].pc \in { "wh_added_getTask", "wh_upd_getTask" }
  /\ \/ /\ GetTaskOk(proc[w].taskId)
        /\ proc' = [proc EXCEPT ![w] =
             CallProcessNewTask(proc[w], trackerTasks[proc[w].taskId], "wh")]
        /\ UNCHANGED budget
     \/ /\ GetTaskFails(proc[w].taskId)
        /\ proc' = [proc EXCEPT ![w] = Idle]
  /\ UNCHANGED << envVars, fixedVars, store, writeQueue, writeLockRejected,
                  lastPollTime, processedComments, hist, harnessVars >>

\* item:updated after `await this.conversations.exists(id)`
WhUpdExists(w) ==
  /\ proc[w].pc = "wh_upd_exists"
  /\ proc' = [proc EXCEPT ![w] =
       IF exists(proc[w].taskId) THEN Idle ELSE [proc[w] EXCEPT !.pc = "wh_upd_getTask"]]
  /\ hist' = IF exists(proc[w].taskId)
               THEN [hist EXCEPT !.suppressed = @ \cup { proc[w].taskId }] ELSE hist
  /\ UNCHANGED << envVars, fixedVars, store, writeQueue, writeLockRejected,
                  lastPollTime, processedComments, budget, harnessVars >>

\* note:added after `await this.todoist.hasAiLabel(taskId)`
WhNoteLabel(w) ==
  /\ proc[w].pc = "wh_note_label"
  /\ LET r == proc[w] IN
     \/ /\ GetTaskOk(r.taskId)
        /\ UNCHANGED budget
        /\ IF hasAiLabel(trackerTasks[r.taskId])
             THEN /\ proc' = [proc EXCEPT ![w] =
                       CallProcessComment(r, r.taskId, r.comment, r.cid, "wh")]
                  /\ hist' = RecordProcessComment(hist, "push", r.cid, r.comment)
             ELSE /\ proc' = [proc EXCEPT ![w] = Idle]
                  /\ UNCHANGED hist
     \/ /\ GetTaskFails(r.taskId)
        /\ proc' = [proc EXCEPT ![w] = Idle]
        /\ UNCHANGED hist
  /\ UNCHANGED << envVars, fixedVars, store, writeQueue, writeLockRejected,
                  lastPollTime, processedComments, harnessVars >>

\* item:completed after `await this.todoist.hasAiLabel(taskId)`
WhDoneLabel(w) ==
  /\ proc[w].pc = "wh_done_label"
  /\ LET r == proc[w] IN
     \/ /\ GetTaskOk(r.taskId)
        /\ UNCHANGED budget
        /\ proc' = [proc EXCEPT ![w] =
             IF hasAiLabel(trackerTasks[r.taskId])
               THEN CallHandleTaskCompletion(r, r.taskId, "wh") ELSE Idle]
     \/ /\ GetTaskFails(r.taskId)
        /\ proc' = [proc EXCEPT ![w] = Idle]
  /\ UNCHANGED << envVars, fixedVars, store, writeQueue, writeLockRejected,
                  lastPollTime, processedComments, hist, harnessVars >>

----------------------------------------------------------------------------
(* TaskProcessorService (the engine) *)

Response == << "reply" >>
ClaudeError == << "claude exited with code 1" >>
FetchError == << "Request failed" >>
WriteError == << "write failed" >>
CompletionNotice == << "Task completed. Conversation history cleared." >>

TaskContent(task) ==
  Trim(<< "Task: " >> \o task.content \o << "\n" >> \o task.description)

Max(a, b) == IF a >= b THEN a ELSE b

\* the conversation persisted for r's task ends with the user message that
\* r appended before invoking the assistant
UserMessageKept(r) ==
  /\ store[r.taskId] # NoConv
  /\ store[r.taskId].messages # << >>
  /\ r.conv # NoConv
  /\ r.conv.messages # << >>
  /\ store[r.taskId].messages[Len(store[r.taskId].messages)]
       = r.conv.messages[Len(r.conv.messages)]

\* the transition of r ends: note what it leaves behind
Finish(c) ==
  LET r == c.r
      h == [c.hist EXCEPT
              !.errPostsMax = Max(@, r.errPosts),
              !.execFail = IF r.execFailed
                             THEN @ \cup { [ op |-> r.op, kept |-> UserMessageKept(r) ] }
                             ELSE @]
  IN  Return([c EXCEPT !.hist = h])

\* handleError up to `await this.todoist.postComment(...)`
handleError(r, message) ==
  [r EXCEPT !.pc = "he_post", !.error = message, !.failed = TRUE,
            !.errPosts = @ + 1]

\* the catch block of processComment up to `await this.todoist.getTask(taskId)`
processCommentCatch(r, message) ==
  [r EXCEPT !.pc = "pc_catch_getTask", !.error = message, !.failed = TRUE]

handleErrorPostFailed_Rethrows(c) == Reject(c)

\* catch (e) { logger.error('Failed to post error comment', ...) }
handleErrorPostFailed(c) == Finish(c)

\* a transition that never synthesizes the anchor
Anchored_Skipped(conv, task) == conv

Anchored(conv, task) ==
  IF Len(conv.messages) = 0
    THEN addMessage([conv EXCEPT !.title = task.content, !.createdAt = now],
                    "user", TaskContent(task), DEFAULT_MAX_MESSAGES)
    ELSE conv

\* processNewTask after `await this.conversations.load(task.id)`
PntLoad(p) ==
  /\ proc[p].pc = "pnt_load"
  /\ LET r == proc[p]
         conv == load(r.taskId)
     IN  /\ proc' = [proc EXCEPT ![p] =
                [r EXCEPT !.pc = "pnt_exec", !.conv = Anchored(conv, r.task)]]
         /\ hist' = [hist EXCEPT
                !.anchors[r.taskId] = IF Len(conv.messages) = 0 THEN Sat(@) ELSE @,
                !.pntExec[r.taskId] = Sat(@)]
  /\ UNCHANGED << envVars, fixedVars, store, writeQueue, writeLockRejected,
                  lastPollTime, processedComments, budget, harnessVars >>

\* processNewTask after `await this.claude.executePrompt(prompt)`
PntExec(p) ==
  /\ proc[p].pc = "pnt_exec"
  /\ LET r == proc[p] IN
     \/ LET conv == addMessage(r.conv, "assistant", Response, DEFAULT_MAX_MESSAGES)
        IN  /\ proc' = [proc EXCEPT ![p] = [r EXCEPT !.pc = "pnt_save", !.conv = conv]]
            /\ writeQueue' = Append(writeQueue, WriteOp(p, "save", r.taskId, conv))
            /\ UNCHANGED budget
     \/ /\ CanFail /\ Failed
        /\ proc' = [proc EXCEPT ![p] =
             handleError([r EXCEPT !.execFailed = TRUE], ClaudeError)]
        /\ UNCHANGED writeQueue
  /\ UNCHANGED << envVars, fixedVars, store, writeLockRejected, lastPollTime,
                  processedComments, hist, harnessVars >>

\* processNewTask after `await this.conversations.save(task.id, conv)`
PntSave(p) ==
  /\ proc[p].pc = "pnt_save"
  /\ \/ WriteOk(p) /\ proc' = [proc EXCEPT ![p].pc = "pnt_post"]
     \/ WriteFails(p) /\ proc' = [proc EXCEPT ![p] = handleError(proc[p], WriteError)]
  /\ UNCHANGED << envVars, fixedVars, lastPollTime, processedComments, hist,
                  harnessVars >>

\* processNewTask after `await this.todoist.postComment(task.id, response)`
PntPost(p) ==
  /\ proc[p].pc = "pnt_post"
  /\ \/ LET lost == FALSE IN
          /\ PostCommentOk(proc[p].taskId, Response, lost)
          /\ Commit(p, Finish([Here(p) EXCEPT
                 !.hist = Posted(hist, proc[p].taskId, Response, lost)]))
     \/ /\ PostCommentFails
        /\ proc' = [proc EXCEPT ![p] = handleError(proc[p], FetchError)]
        /\ UNCHANGED << lastPollTime, processedComments, hist >>
  /\ UNCHANGED << fixedVars, store, writeQueue, writeLockRejected, harnessVars >>

\* handleError after `await this.todoist.postComment(...)`
HePost(p) ==
  /\ proc[p].pc = "he_post"
  /\ \/ LET lost == FALSE IN
          /\ PostCommentOk(proc[p].taskId, ErrorReply(proc[p].error), lost)
          /\ Commit(p, Finish([Here(p) EXCEPT
                 !.hist = Posted(hist, proc[p].taskId, ErrorReply(proc[p].error),
                                 lost)]))
     \/ /\ PostCommentFails
        /\ Commit(p, handleErrorPostFailed(
                       [Here(p) EXCEPT !.hist.errPostFailed = TRUE]))
  /\ UNCHANGED << fixedVars, store, writeQueue, writeLockRejected, harnessVars >>

\* processComment after `await this.todoist.getTask(taskId)`
PcGetTask(p) ==
  /\ proc[p].pc = "pc_getTask"
  /\ LET r == proc[p] IN
     \/ /\ GetTaskOk(r.taskId)
        /\ proc' = [proc EXCEPT ![p] =
             [r EXCEPT !.pc = "pc_load", !.task = trackerTasks[r.taskId]]]
        /\ UNCHANGED budget
     \/ /\ GetTaskFails(r.taskId)
        /\ proc' = [proc EXCEPT ![p] = processCommentCatch(r, FetchError)]
  /\ UNCHANGED << envVars, fixedVars, store, writeQueue, writeLockRejected,
                  lastPollTime, processedComments, hist, harnessVars >>

\* processComment after `await this.conversations.load(taskId)`
PcLoad(p) ==
  /\ proc[p].pc = "pc_load"
  /\ LET r == proc[p]
         conv == addMessage(Anchored(load(r.taskId), r.task), "user", r.comment,
                            DEFAULT_MAX_MESSAGES)
     IN  proc' = [proc EXCEPT ![p] = [r EXCEPT !.pc = "pc_exec", !.conv = conv]]
  /\ UNCHANGED << envVars, fixedVars, store, writeQueue, writeLockRejected,
                  lastPollTime, processedComments, hist, budget, harnessVars >>

\* processComment after `await this.claude.executePrompt(prompt)`
PcExec(p) ==
  /\ proc[p].pc = "pc_exec"
  /\ LET r == proc[p] IN
     \/ LET conv == addMessage(r.conv, "assistant", Response, DEFAULT_MAX_MESSAGES)
        IN  /\ proc' = [proc EXCEPT ![p] = [r EXCEPT !.pc = "pc_save", !.conv = conv]]
            /\ writeQueue' = Append(writeQueue, WriteOp(p, "save", r.taskId, conv))
            /\ UNCHANGED budget
     \/ /\ CanFail /\ Failed
        /\ proc' = [proc EXCEPT ![p] =
             processCommentCatch([r EXCEPT !.execFailed = TRUE], ClaudeError)]
        /\ UNCHANGED writeQueue
  /\ UNCHANGED << envVars, fixedVars, store, writeLockRejected, lastPollTime,
                  processedComments, hist, harnessVars >>

\* processComment that posts the reply whether or not the save resolved
PcSave_PostsAnyway(p) ==
  /\ proc[p].pc = "pc_save"
  /\ WriteOk(p) \/ WriteFails(p)
  /\ proc' = [proc EXCEPT ![p].pc = "pc_post"]
  /\ UNCHANGED << envVars, fixedVars, lastPollTime, processedComments, hist,
                  harnessVars >>

\* processComment after `await this.conversations.save(taskId, conv)`
PcSave(p) ==
  /\ proc[p].pc = "pc_save"
  /\ \/ WriteOk(p) /\ proc' = [proc EXCEPT ![p].pc = "pc_post"]
     \/ /\ WriteFails(p)
        /\ proc' = [proc EXCEPT ![p] = processCommentCatch(proc[p], WriteError)]
  /\ UNCHANGED << envVars, fixedVars, lastPollTime, processedComments, hist,
                  harnessVars >>

\* processComment after `await this.todoist.postComment(taskId, response)`
PcPost(p) ==
  /\ proc[p].pc = "pc_post"
  /\ \/ LET lost == FALSE IN
          /\ PostCommentOk(proc[p].taskId, Response, lost)
          /\ Commit(p, Finish([Here(p) EXCEPT
                 !.hist = Posted(hist, proc[p].taskId, Response, lost)]))
     \/ /\ PostCommentFails
        /\ proc' = [proc EXCEPT ![p] = processCommentCatch(proc[p], FetchError)]
        /\ UNCHANGED << lastPollTime, processedComments, hist >>
  /\ UNCHANGED << fixedVars, store, writeQueue, writeLockRejected, harnessVars >>

\* the catch block of processComment after its `await this.todoist.getTask`:
\* handleError is called once, with the task's title or with 'Unknown task'
PcCatchGetTask(p) ==
  /\ proc[p].pc = "pc_catch_getTask"
  /\ \/ GetTaskOk(proc[p].taskId) /\ UNCHANGED budget
     \/ GetTaskFails(proc[p].taskId)
  /\ proc' = [proc EXCEPT ![p] = handleError(proc[p], proc[p].error)]
  /\ UNCHANGED << envVars, fixedVars, store, writeQueue, writeLockRejected,
                  lastPollTime, processedComments, hist, harnessVars >>

\* handleTaskCompletion after `await this.conversations.load(taskId)`
HtcLoad(p) ==
  /\ proc[p].pc = "htc_load"
  /\ LET r == proc[p]
         conv == load(r.taskId)
     IN  IF Len(conv.messages) > 0
           THEN /\ proc' = [proc EXCEPT ![p] = [r EXCEPT !.pc = "htc_post", !.conv = conv]]
                /\ UNCHANGED writeQueue
           ELSE /\ proc' = [proc EXCEPT ![p] = [r EXCEPT !.pc = "htc_cleanup", !.conv = conv]]
                /\ writeQueue' = Append(writeQueue, WriteOp(p, "cleanup", r.taskId, NoConv))
  /\ UNCHANGED << envVars, fixedVars, store, writeLockRejected, lastPollTime,
                  processedComments, hist, budget, harnessVars >>

\* handleTaskCompletion after the postComment of the closing notice; a
\* rejection is caught and logged
HtcPost(p) ==
  /\ proc[p].pc = "htc_post"
  /\ \/ LET lost == FALSE IN
          /\ PostCommentOk(proc[p].taskId, CompletionNotice, lost)
          /\ hist' = Posted(hist, proc[p].taskId, CompletionNotice, lost)
          /\ proc' = [proc EXCEPT ![p].pc = "htc_cleanup"]
     \/ /\ PostCommentFails
        /\ proc' = [proc EXCEPT ![p].pc = "htc_cleanup", ![p].failed = TRUE]
        /\ UNCHANGED hist
  /\ writeQueue' = Append(writeQueue, WriteOp(p, "cleanup", proc[p].taskId, NoConv))
  /\ UNCHANGED << fixedVars, store, writeLockRejected, lastPollTime,
                  processedComments, harnessVars >>

\* ghost: the work that is in flight while p finishes a completion
InFlight(p) ==
  { [ p |-> q, t |-> proc[p].taskId ] : q \in { x \in Procs \ { p } : proc[x].pc # "idle" } }

\* handleTaskCompletion after `await this.conversations.cleanup(taskId)`; a
\* rejection is caught and logged
HtcCleanup(p) ==
  /\ proc[p].pc = "htc_cleanup"
  /\ \/ WriteOk(p) /\ Commit(p, Finish([Here(p) EXCEPT !.hist.stale = @ \cup InFlight(p)]))
     \/ WriteFails(p) /\ Commit(p, Finish([Here(p) EXCEPT !.r.failed = TRUE]))
  /\ UNCHANGED << envVars, fixedVars, harnessVars >>

----------------------------------------------------------------------------
(* The program *)

HarnessIdle ==
  /\ pm = 0 /\ pconv = NoConv /\ plog = << >> /\ calls = NoCalls /\ http = NoHttp
  /\ ai = NoRuns

\* the state of the process once main() has constructed its objects
Constructed(cfg, up, comments, polls, failures) ==
  /\ maxMessages = cfg
  /\ aiLabel = AI_LABEL
  /\ pushUp = up
  /\ pushes = << >>
  /\ writeQueue = << >>
  /\ writeLockRejected = FALSE
  /\ lastPollTime = EPOCH
  /\ processedComments = << >>
  /\ proc = [p \in Procs |-> Idle]
  /\ hist = HistInit
  /\ budget = [ comments |-> comments, polls |-> polls, failures |-> failures,
              reopens |-> 0, disk |-> TRUE ]
  /\ HarnessIdle

\* first start: no task in the tracker, no conversations.json
Start(cfg, up, comments, polls, failures) ==
  /\ Constructed(cfg, up, comments, polls, failures)
  /\ now = 1
  /\ trackerTasks = [t \in Tasks |-> NoTask]
  /\ trackerComments = << >>
  /\ nextCommentId = 1
  /\ store = [t \in Tasks |-> NoConv]

\* what an earlier run of the process left behind: a labelled task, its
\* conversation in conversations.json and the reply posted to the tracker
EarlierTask(t) == NewTask(t, { AI_LABEL }, << "details" >>, 1)

EarlierConversation(t) ==
  addMessage(
    addMessage([createEmpty(1) EXCEPT !.title = EarlierTask(t).content],
               "user", TaskContent(EarlierTask(t)), DEFAULT_MAX_MESSAGES),
    "assistant", Response, DEFAULT_MAX_MESSAGES)

\* the process starts again: memory is as constructed, disk and tracker are not
Restart(cfg, up, comments, polls, failures) ==
  /\ Constructed(cfg, up, comments, polls, failures)
  /\ now = 2
  /\ trackerTasks = [t \in Tasks |-> EarlierTask(t)]
  /\ trackerComments =
       TrackerAddComment(<< >>, 1, "t1", PostedContent(Response), 2, "system")
  /\ nextCommentId = 2
  /\ store = [t \in Tasks |-> EarlierConversation(t)]

\* the process starts for the first time while a labelled task, created
\* earlier, is waiting in the tracker
StartLate(cfg, up, comments, polls, failures) ==
  /\ Constructed(cfg, up, comments, polls, failures)
  /\ now = 2
  /\ trackerTasks = [t \in Tasks |-> EarlierTask(t)]
  /\ trackerComments = << >>
  /\ nextCommentId = 1
  /\ store = [t \in Tasks |-> NoConv]

Environment ==
  \/ \E t \in Tasks, lost \in BOOLEAN : CreateTask(t, { AI_LABEL }, lost)
  \/ \E t \in Tasks, lost \in BOOLEAN : CreateTask(t, { }, lost)
  \/ \E t \in Tasks, lost \in BOOLEAN : RelabelTask(t, lost)
  \/ \E t \in Tasks, text \in UserTexts, lost \in BOOLEAN : UserComment(t, text, lost)
  \/ \E t \in Tasks, lost \in BOOLEAN : CompleteTask(t, lost)

Webhook ==
  \/ \E w \in WebhookProcs : DeliverPush(w, Head(pushes))
  \/ \E w \in WebhookProcs : WhGetTask(w)
  \/ \E w \in WebhookProcs : WhUpdExists(w)
  \/ \E w \in WebhookProcs : WhNoteLabel(w)
  \/ \E w \in WebhookProcs : WhDoneLabel(w)

Poller(slots) ==
  \/ \E p \in slots : PollTick(p)
  \/ \E p \in slots : PollFetch(p)
  \/ \E p \in slots : PtExists(p)
  \/ \E p \in slots : PtSave(p)
  \/ \E p \in slots : CcFetch(p)

Engine ==
  \/ \E p \in Procs : PntLoad(p)
  \/ \E p \in Procs : PntExec(p)
  \/ \E p \in Procs : PntSave(p)
  \/ \E p \in Procs : PntPost(p)
  \/ \E p \in Procs : HePost(p)
  \/ \E p \in Procs : PcGetTask(p)
  \/ \E p \in Procs : PcLoad(p)
  \/ \E p \in Procs : PcExec(p)
  \/ \E p \in Procs : PcSave(p)
  \/ \E p \in Procs : PcPost(p)
  \/ \E p \in Procs : PcCatchGetTask(p)
  \/ \E p \in Procs : HtcLoad(p)
  \/ \E p \in Procs : HtcPost(p)
  \/ \E p \in Procs : HtcCleanup(p)

\* addMessage applied to one conversation, message after message
AppendMessage(role) ==
  /\ Len(plog) < MaxAppend
  /\ LET text == << ToString(Len(plog)) >>
     IN  /\ pconv' = addMessage(pconv, role, text, pm)
         /\ plog' = Append(plog, [role |-> role, content |-> text])
  /\ UNCHANGED << envVars, fixedVars, store, writeQueue, writeLockRejected,
                  lastPollTime, processedComments, proc, hist, budget, pm, ai,
                  calls, http >>

InitPrune ==
  /\ now = 1
  /\ maxMessages = DEFAULT_MAX_MESSAGES
  /\ aiLabel = AI_LABEL
  /\ pushUp = FALSE
  /\ trackerTasks = [t \in Tasks |-> NoTask]
  /\ trackerComments = << >>
  /\ nextCommentId = 1
  /\ pushes = << >>
  /\ store = [t \in Tasks |-> NoConv]
  /\ writeQueue = << >>
  /\ writeLockRejected = FALSE
  /\ lastPollTime = EPOCH
  /\ processedComments = << >>
  /\ proc = [p \in Procs |-> Idle]
  /\ hist = HistInit
  /\ budget = [ comments |-> 0, polls |-> 0, failures |-> 0, reopens |-> 0,
              disk |-> TRUE ]
  /\ pm \in 1..MaxCfgMessages
  /\ pconv = createEmpty(1)
  /\ plog = << >>
  /\ ai = NoRuns
  /\ calls = NoCalls
  /\ http = NoHttp

NextPrune == \E role \in { "user", "assistant" } : AppendMessage(role)

SpecPrune == InitPrune /\ [][NextPrune]_vars

----------------------------------------------------------------------------
(* ConversationRepository on its own: save and cleanup calls issued while
   earlier ones are in flight, each chained operation step by step *)

MaxStoreFailures == 1

\* a conversation some caller saves
ConvOf(c) == [createEmpty(1) EXCEPT !.title = << c >>]

\* an earlier run left this conversation under key k
LeftBehind(k) == [createEmpty(1) EXCEPT !.title = << k >>]

Targeted == { calls[c].op.taskId : c \in { d \in CallIds : calls[d].state # "none" } }

\* the chained operations that may run: `this.writeLock.then(...)` starts
\* one only when every operation chained before it has settled
Runnable_Unchained(q) == 1..Len(q)

Runnable(q) == IF q = << >> THEN { } ELSE { 1 }

Without(q, i) == SubSeq(q, 1, i - 1) \o SubSeq(q, i + 1, Len(q))

\* save(taskId, conversation) / cleanup(taskId) up to `await this.writeLock`
RepoCall(c, kind, k) ==
  /\ calls[c].state = "none"
  /\ k \notin Targeted
  /\ LET op == WriteOp(c, kind, k, IF kind = "save" THEN ConvOf(c) ELSE NoConv)
     IN  /\ writeQueue' = Append(writeQueue, op)
         /\ calls' = [calls EXCEPT ![c] =
              [state |-> "pending", op |-> op, read |-> FALSE, data |-> << >>,
               ioFailed |-> FALSE, behind |-> Len(writeQueue), at |-> 0]]
  /\ UNCHANGED << envVars, fixedVars, store, writeLockRejected, lastPollTime,
                  processedComments, proc, hist, budget, pm, pconv, plog, ai,
                  http >>

\* `const data = await this.loadAll()` of a chained operation
ChainLoadAll(c) ==
  /\ ~ writeLockRejected
  /\ \E i \in Runnable(writeQueue) :
       /\ writeQueue[i].p = c
       /\ ~ calls[c].read
       /\ calls' = [calls EXCEPT ![c].read = TRUE, ![c].data = store]
  /\ UNCHANGED << envVars, fixedVars, store, writeQueue, writeLockRejected,
                  lastPollTime, processedComments, proc, hist, budget, pm, pconv,
                  plog, ai, http >>

\* mkdir and writeFile of a chained operation: the document is replaced and
\* the call resolves, or the write fails and the call rejects
ChainWrite(c) ==
  /\ ~ writeLockRejected
  /\ \E i \in Runnable(writeQueue) :
       /\ writeQueue[i].p = c
       /\ calls[c].read
       /\ writeQueue' = Without(writeQueue, i)
       /\ \/ /\ store' = DocApply(calls[c].data, writeQueue[i])
             /\ calls' = [calls EXCEPT ![c].state = "resolved", ![c].at = now]
             /\ UNCHANGED << writeLockRejected, budget >>
          \/ /\ budget.disk /\ CanFail /\ Failed
             /\ writeLockRejected' = TRUE
             /\ calls' = [calls EXCEPT ![c].state = "rejected",
                                       ![c].ioFailed = TRUE]
             /\ UNCHANGED store
  /\ UNCHANGED << envVars, fixedVars, lastPollTime, processedComments, proc,
                  hist, pm, pconv, plog, ai, http >>

\* an operation chained on a rejected writeLock: its callback is not run and
\* `await this.writeLock` rejects
ChainSkip(c) ==
  /\ writeLockRejected
  /\ writeQueue # << >>
  /\ Head(writeQueue).p = c
  /\ writeQueue' = Tail(writeQueue)
  /\ calls' = [calls EXCEPT ![c].state = "rejected"]
  /\ UNCHANGED << envVars, fixedVars, store, writeLockRejected, lastPollTime,
                  processedComments, proc, hist, budget, pm, pconv, plog, ai,
                  http >>

InitStore ==
  /\ now = 1
  /\ maxMessages = DEFAULT_MAX_MESSAGES
  /\ aiLabel = AI_LABEL
  /\ pushUp = FALSE
  /\ trackerTasks = [t \in Tasks |-> NoTask]
  /\ trackerComments = << >>
  /\ nextCommentId = 1
  /\ pushes = << >>
  /\ \E left \in SUBSET StoreKeys :
       store = [k \in StoreKeys |-> IF k \in left THEN LeftBehind(k) ELSE NoConv]
  /\ writeQueue = << >>
  /\ writeLockRejected = FALSE
  /\ lastPollTime = EPOCH
  /\ processedComments = << >>
  /\ proc = [p \in Procs |-> Idle]
  /\ hist = HistInit
  /\ budget = [ comments |-> 0, polls |-> 0, failures |-> MaxStoreFailures,
                reopens |-> 0, disk |-> TRUE ]
  /\ pm = 0 /\ pconv = NoConv /\ plog = << >>
  /\ ai = NoRuns
  /\ calls = NoCalls
  /\ http = NoHttp

NextStore ==
  \/ \E c \in CallIds, k \in StoreKeys : RepoCall(c, "save", k)
  \/ \E c \in CallIds, k \in StoreKeys : RepoCall(c, "cleanup", k)
  \/ \E c \in CallIds : ChainLoadAll(c)
  \/ \E c \in CallIds : ChainWrite(c)
  \/ \E c \in CallIds : ChainSkip(c)

SpecStore == InitStore /\ [][NextStore]_vars

\* one caller that awaits each repository call before it makes the next
MaxClock == 3

Script == << "c1", "c2", "c3" >>

\* the conversations the caller saves
Conversations ==
  { [ title |-> << "First" >>,
      messages |-> << [role |-> "user", content |-> << "Hello" >>] >>,
      createdAt |-> EPOCH, lastActivityAt |-> EPOCH ],
    [ title |-> << "Second" >>, messages |-> << >>,
      createdAt |-> 1, lastActivityAt |-> EPOCH ] }

\* the i-th call of the caller is the next one it makes
NextInScript(i) ==
  /\ calls[Script[i]].state = "none"
  /\ \A j \in 1..(i - 1) : calls[Script[j]].state \in { "resolved", "rejected" }

\* `await save(k, conv)` / `await cleanup(k)` up to `await this.writeLock`
SeqWrite(i, kind, k, conv) ==
  /\ NextInScript(i)
  /\ LET op == WriteOp(Script[i], kind, k, conv)
     IN  /\ writeQueue' = Append(writeQueue, op)
         /\ calls' = [calls EXCEPT ![Script[i]] =
              [state |-> "pending", op |-> op, read |-> FALSE, data |-> << >>,
               ioFailed |-> FALSE, behind |-> Len(writeQueue), at |-> 0,
               pre |-> store, result |-> NoConv, found |-> FALSE]]
  /\ UNCHANGED << envVars, fixedVars, store, writeLockRejected, lastPollTime,
                  processedComments, proc, hist, budget, pm, pconv, plog, ai,
                  http >>

\* `await load(k)` and `await exists(k)` up to `await this.loadAll()`
SeqRead(i, k) ==
  /\ NextInScript(i)
  /\ calls' = [calls EXCEPT ![Script[i]] =
       [state |-> "reading", op |-> WriteOp(Script[i], "load", k, NoConv),
        read |-> FALSE, data |-> << >>, ioFailed |-> FALSE, behind |-> 0,
        at |-> 0, pre |-> store, result |-> NoConv, found |-> FALSE]]
  /\ UNCHANGED << envVars, fixedVars, store, writeQueue, writeLockRejected,
                  lastPollTime, processedComments, proc, hist, budget, pm, pconv,
                  plog, ai, http >>

\* loadAll has answered: load returns `data[taskId] ?? createEmpty()`, exists
\* returns `taskId in data`
ReadReturns(c) ==
  /\ calls[c].state = "reading"
  /\ calls' = [calls EXCEPT ![c].state = "resolved", ![c].at = now,
                            ![c].result = load(calls[c].op.taskId),
                            ![c].found = exists(calls[c].op.taskId)]
  /\ UNCHANGED << envVars, fixedVars, store, writeQueue, writeLockRejected,
                  lastPollTime, processedComments, proc, hist, budget, pm, pconv,
                  plog, ai, http >>

\* time passes between two steps
ClockTick ==
  /\ now < MaxClock
  /\ now' = now + 1
  /\ UNCHANGED << fixedVars, trackerTasks, trackerComments, nextCommentId, pushes,
                  store, writeQueue, writeLockRejected, lastPollTime,
                  processedComments, proc, hist, budget, harnessVars >>

NextRound ==
  \/ \E i \in 1..Len(Script), k \in StoreKeys, conv \in Conversations :
       SeqWrite(i, "save", k, conv)
  \/ \E i \in 1..Len(Script), k \in StoreKeys : SeqWrite(i, "cleanup", k, NoConv)
  \/ \E i \in 1..Len(Script), k \in StoreKeys : SeqRead(i, k)
  \/ \E c \in CallIds : ReadReturns(c)
  \/ \E c \in CallIds : ChainLoadAll(c)
  \/ \E c \in CallIds : ChainWrite(c)
  \/ \E c \in CallIds : ChainSkip(c)
  \/ ClockTick

SpecRound == InitStore /\ [][NextRound]_vars

----------------------------------------------------------------------------
(* AIOrchestrator.processTask: Claude's analysis, Gemini's opinion, synthesis *)

FALLBACK_NOTE == << "\n\n_Note: Unable to consult second opinion_" >>

\* what executePrompt resolves with
ClaudeTexts == { << "reply" >>, << "(no response)" >> }

\* what consultGemini settles with: an opinion, an empty string, a rejection
GeminiAnswers == { "opinion", "empty", "throw" }

\* processTask that lets a rejection of consultGemini escape
AfterGemini_Uncaught(r, answer) ==
  CASE answer = "opinion" -> [r EXCEPT !.pc = "synthesis", !.claudeCalls = @ + 1]
    [] answer = "empty" ->
         [r EXCEPT !.pc = "done", !.outcome = "returned",
                   !.result = r.analysis \o FALLBACK_NOTE]
    [] OTHER -> [r EXCEPT !.pc = "done", !.outcome = "threw", !.geminiFailed = TRUE]

\* steps 2 and 3 of processTask once consultGemini has settled: a rejection
\* is caught and leaves geminiOpinion null; a null or empty opinion returns
\* the analysis with the note, any other starts the synthesis call
AfterGemini(r, answer) ==
  IF answer = "opinion"
    THEN [r EXCEPT !.pc = "synthesis", !.claudeCalls = @ + 1]
    ELSE [r EXCEPT !.pc = "done", !.outcome = "returned",
                   !.result = r.analysis \o FALLBACK_NOTE,
                   !.geminiFailed = (answer = "throw")]

orchVars ==
  << envVars, fixedVars, store, writeQueue, writeLockRejected, lastPollTime,
     processedComments, proc, hist, budget, pm, pconv, plog, calls, http >>

\* processTask is called: buildPrompt, then executePrompt is awaited
OrchStart(a) ==
  /\ ai[a].pc = "idle"
  /\ ai' = [ai EXCEPT ![a] = [NoRun EXCEPT !.pc = "analysis", !.claudeCalls = 1]]
  /\ UNCHANGED orchVars

\* executePrompt settles: the initial analysis or the synthesis; a rejection
\* is not caught in processTask
ClaudeSettles(a) ==
  /\ ai[a].pc \in { "analysis", "synthesis" }
  /\ \/ \E text \in ClaudeTexts :
          ai' = [ai EXCEPT ![a] =
            IF ai[a].pc = "analysis"
              THEN [ai[a] EXCEPT !.pc = "gemini", !.analysis = text]
              ELSE [ai[a] EXCEPT !.pc = "done", !.outcome = "returned",
                                 !.result = text]]
     \/ ai' = [ai EXCEPT ![a] =
          [ai[a] EXCEPT !.pc = "done", !.outcome = "threw", !.claudeFailed = TRUE]]
  /\ UNCHANGED orchVars

\* consultGemini settles
GeminiSettles(a) ==
  /\ ai[a].pc = "gemini"
  /\ \E answer \in GeminiAnswers : ai' = [ai EXCEPT ![a] = AfterGemini(ai[a], answer)]
  /\ UNCHANGED orchVars

\* two processTask calls of the orchestrator, in flight at once
InitOrch == Start(DEFAULT_MAX_MESSAGES, FALSE, 0, 0, 0)

NextOrch ==
  \/ \E a \in RunIds : OrchStart(a)
  \/ \E a \in RunIds : ClaudeSettles(a)
  \/ \E a \in RunIds : GeminiSettles(a)

SpecOrch == InitOrch /\ [][NextOrch]_vars

----------------------------------------------------------------------------
(* The HTTP boundary: POST /webhook of createServer, in the two versions of
   server.ts, and of the earlier createApp *)

DigestLen == 2

Builds == { "first", "second", "legacy" }

webhookSecret == << 1, 0 >>

\* the JSON bodies a sender posts
Bodies == { << 1 >>, << 2 >> }

\* the values of the x-todoist-hmac-sha256 header, the empty one included
Signatures == UNION { [1..n -> 0..1] : n \in 0..(DigestLen + 1) }

RECURSIVE Weigh(_)
Weigh(s) == IF s = << >> THEN 0 ELSE Len(s) * s[Len(s)] + Weigh(SubSeq(s, 1, Len(s) - 1))

\* createHmac('sha256', secret).update(rawBody).digest('base64'): a keyed
\* digest of fixed length
Digest(secret, rawBody) ==
  [i \in 1..DigestLen |-> (Weigh(secret \o rawBody) \div (2 ^ (i - 1))) % 2]

\* crypto.timingSafeEqual throws a RangeError on buffers of different length
timingSafeEqual(a, b) ==
  IF Len(a) # Len(b) THEN "throw" ELSE IF a = b THEN "equal" ELSE "differ"

\* update(undefined) and timingSafeEqual throw inside the try block
verifySignature(q, secret) ==
  q.hasRaw /\ timingSafeEqual(Digest(secret, q.raw), q.sig) = "equal"

\* a header value that JavaScript takes as true: present and not empty
TruthySignature(q) == q.hasSig /\ q.sig # << >>

RouteFirst(q) ==
  IF TruthySignature(q) /\ q.hasRaw
    THEN LET eq == timingSafeEqual(Digest(webhookSecret, q.raw), q.sig)
         IN  IF eq = "throw" THEN "throw" ELSE IF eq = "differ" THEN "403" ELSE "200"
    ELSE "200"

RouteSecond(q) ==
  IF ~ q.hasSig THEN "403"
  ELSE IF ~ q.hasRaw THEN "403"
  ELSE IF Len(Digest(webhookSecret, q.raw)) # Len(q.sig) THEN "403"
  ELSE IF timingSafeEqual(Digest(webhookSecret, q.raw), q.sig) # "equal" THEN "403"
  ELSE "200"

RouteLegacy(q) ==
  IF TruthySignature(q) /\ ~ verifySignature(q, webhookSecret) THEN "403" ELSE "200"

Route(build, q) ==
  CASE build = "first"  -> RouteFirst(q)
    [] build = "second" -> RouteSecond(q)
    [] OTHER            -> RouteLegacy(q)

\* the while loop of processQueue from its test: the next job is shifted
\* and runs up to its first await, or the loop ends and processing is reset
Drain(h) ==
  IF h.queue = << >>
    THEN [h EXCEPT !.processing = FALSE, !.drains = @ - 1]
    ELSE [h EXCEPT !.queue = Tail(h.queue),
                   !.starts = Append(@, Head(h.queue)),
                   !.reqs[Head(h.queue)].phase = "running",
                   !.reqs[Head(h.queue)].started = TRUE]

processQueue(h) == Drain([h EXCEPT !.processing = TRUE, !.drains = @ + 1])

Pushed(h, r) ==
  [h EXCEPT !.queue = Append(h.queue, r), !.order = Append(@, r),
            !.reqs[r].phase = "queued"]

enqueue_Unguarded(h, r) == processQueue(Pushed(h, r))

enqueue(h, r) ==
  IF ~ h.processing THEN processQueue(Pushed(h, r)) ELSE Pushed(h, r)

\* `await job()` rejects inside the try block of processQueue
JobThrew_LoopDies(h) == [h EXCEPT !.drains = @ - 1]

JobThrew(h) == Drain(h)

\* res.status(200).json(...) and then the hand-over of the event:
\* setImmediate in createServer, enqueue in createApp
RespondThenProcess(h, r, q) ==
  LET answered == [h EXCEPT !.reqs[r] = [q EXCEPT !.status = 200, !.phase = "scheduled"]]
  IN  IF h.build = "legacy" THEN enqueue(answered, r) ELSE answered

\* handleWebhook (or the job) rejects: the .catch / try-catch logs it
ProcessingFailed_Uncaught(q) ==
  [q EXCEPT !.phase = "done", !.threw = TRUE, !.unhandled = TRUE]

ProcessingFailed(q) == [q EXCEPT !.phase = "done", !.threw = TRUE]

\* a request reaches POST /webhook and the route handler runs to its end
Handle(r, hasSig, sig, hasRaw, raw) ==
  /\ http.reqs[r].phase = "idle"
  /\   /\ LET q == [NoReq EXCEPT !.hasSig = hasSig, !.sig = sig,
                                 !.hasRaw = hasRaw,
                                 !.raw = IF hasRaw THEN raw ELSE << >>]
              out == Route(http.build, q)
          IN  \/ /\ out = "403"
                 /\ http' = [http EXCEPT !.reqs[r] =
                                [q EXCEPT !.status = 403, !.phase = "closed"]]
              \/ /\ out = "throw"
                 /\ \E status \in { 0, 500 } :
                      http' = [http EXCEPT !.reqs[r] =
                                 [q EXCEPT !.status = status, !.phase = "closed"]]
              \/ /\ out = "200"
                 /\ http' = RespondThenProcess(http, r, q)
  /\ UNCHANGED << envVars, fixedVars, store, writeQueue, writeLockRejected,
                  lastPollTime, processedComments, proc, hist, budget, pm, pconv,
                  plog, ai, calls >>

Request(r) ==
  \E hasSig \in BOOLEAN, sig \in Signatures, hasRaw \in BOOLEAN, raw \in Bodies :
    /\ ~ hasSig => sig = << >>
    /\ ~ hasRaw => raw = << 1 >>
    /\ Handle(r, hasSig, sig, hasRaw, raw)

\* the setImmediate callback: handleWebhook starts and runs to its first await
ImmediateRuns(r) ==
  /\ http.reqs[r].phase = "scheduled"
  /\ http' = [http EXCEPT !.reqs[r].phase = "running", !.reqs[r].started = TRUE]
  /\ UNCHANGED << envVars, fixedVars, store, writeQueue, writeLockRejected,
                  lastPollTime, processedComments, proc, hist, budget, pm, pconv,
                  plog, ai, calls >>

\* the processing of the event settles, however long it took
Settles(r) ==
  /\ http.reqs[r].phase = "running"
  /\ \E ok \in BOOLEAN :
       LET q == http.reqs[r]
           settled == [http EXCEPT !.reqs[r] =
                         IF ok THEN [q EXCEPT !.phase = "done"]
                               ELSE ProcessingFailed(q)]
       IN  http' = IF http.build # "legacy" THEN settled
                   ELSE IF ok THEN Drain(settled) ELSE JobThrew(settled)
  /\ UNCHANGED << envVars, fixedVars, store, writeQueue, writeLockRejected,
                  lastPollTime, processedComments, proc, hist, budget, pm, pconv,
                  plog, ai, calls >>

HttpStart(builds) ==
  /\ now = 1
  /\ maxMessages = DEFAULT_MAX_MESSAGES
  /\ aiLabel = AI_LABEL
  /\ pushUp = TRUE
  /\ trackerTasks = [t \in Tasks |-> NoTask]
  /\ trackerComments = << >>
  /\ nextCommentId = 1
  /\ pushes = << >>
  /\ store = [t \in Tasks |-> NoConv]
  /\ writeQueue = << >>
  /\ writeLockRejected = FALSE
  /\ lastPollTime = EPOCH
  /\ processedComments = << >>
  /\ proc = [p \in Procs |-> Idle]
  /\ hist = HistInit
  /\ budget = [ comments |-> 0, polls |-> 0, failures |-> 0, reopens |-> 0,
                disk |-> TRUE ]
  /\ pm = 0 /\ pconv = NoConv /\ plog = << >>
  /\ ai = NoRuns
  /\ calls = NoCalls
  /\ \E b \in builds : http = [NoHttp EXCEPT !.build = b]

InitHttp == HttpStart(Builds)

NextHttp ==
  \/ \E r \in ReqIds : Request(r)
  \/ \E r \in ReqIds : ImmediateRuns(r)
  \/ \E r \in ReqIds : Settles(r)

SpecHttp == InitHttp /\ [][NextHttp]_vars

\* createApp alone: requests without a signature header, each handing one
\* job to the queue
InitQueue == HttpStart({ "legacy" })

Unsigned(r) == \E raw \in Bodies : Handle(r, FALSE, << >>, TRUE, raw)

NextQueue ==
  \/ \E r \in JobIds : Unsigned(r)
  \/ \E r \in JobIds : Settles(r)

SpecQueue == InitQueue /\ [][NextQueue]_vars

\* every job's promise settles
SpecQueueLive == SpecQueue /\ WF_vars(\E r \in JobIds : Settles(r))

\* the server and one poll pass at a time
Init == Start(DEFAULT_MAX_MESSAGES, TRUE, MaxJointComments, MaxJointPolls, MaxFailures)

Next == Environment \/ Webhook \/ Poller({ "p1" }) \/ Engine

Spec == Init /\ [][Next]_vars

\* the poller alone, its passes overlapping; no push is delivered
InitPoll ==
  \/ Start(DEFAULT_MAX_MESSAGES, FALSE, MaxUserComments, MaxPolls, MaxPollFailures)
  \/ Restart(DEFAULT_MAX_MESSAGES, FALSE, MaxUserComments, MaxPolls, MaxPollFailures)
  \/ StartLate(DEFAULT_MAX_MESSAGES, FALSE, MaxUserComments, MaxPolls, MaxPollFailures)

\* handleTaskCompletion is called by handleWebhook only
PollEngine ==
  \/ \E p \in PollProcs : PntLoad(p)
  \/ \E p \in PollProcs : PntExec(p)
  \/ \E p \in PollProcs : PntSave(p)
  \/ \E p \in PollProcs : PntPost(p)
  \/ \E p \in PollProcs : HePost(p)
  \/ \E p \in PollProcs : PcGetTask(p)
  \/ \E p \in PollProcs : PcLoad(p)
  \/ \E p \in PollProcs : PcExec(p)
  \/ \E p \in PollProcs : PcSave(p)
  \/ \E p \in PollProcs : PcPost(p)
  \/ \E p \in PollProcs : PcCatchGetTask(p)

NextPoll == Environment \/ Poller(PollProcs) \/ PollEngine

SpecPoll == InitPoll /\ [][NextPoll]_vars

\* the push channel alone, under every accepted maxMessages setting
InitPush ==
  \E cfg \in 1..MaxCfgMessages :
    Start(cfg, TRUE, MaxUserComments, 0, MaxEngineFailures)

NextPush == Environment \/ Webhook \/ Engine

SpecPush == InitPush /\ [][NextPush]_vars

\* the server alone, with the trigger label left at its default or
\* configured through AI_LABEL, tasks that carry either label or none, and
\* request bodies that are not events of the tracker
LabelSets == { { }, { AI_LABEL }, { OTHER_LABEL } }

InitLabel ==
  /\ maxMessages = DEFAULT_MAX_MESSAGES
  /\ aiLabel \in { AI_LABEL, OTHER_LABEL }
  /\ pushUp = TRUE
  /\ pushes = << >>
  /\ writeQueue = << >>
  /\ writeLockRejected = FALSE
  /\ lastPollTime = EPOCH
  /\ processedComments = << >>
  /\ proc = [p \in Procs |-> Idle]
  /\ hist = HistInit
  /\ budget = [ comments |-> MaxLabelComments, polls |-> 0,
                failures |-> MaxLabelFailures, reopens |-> 0, disk |-> FALSE ]
  /\ HarnessIdle
  /\ now = 1
  /\ trackerTasks = [t \in Tasks |-> NoTask]
  /\ trackerComments = << >>
  /\ nextCommentId = 1
  /\ store = [t \in Tasks |-> NoConv]

LabelEnvironment ==
  \/ \E t \in Tasks, labels \in LabelSets : CreateTask(t, labels, FALSE)
  \/ \E t \in Tasks, labels \in LabelSets : LabelTask(t, labels, FALSE)
  \/ \E t \in Tasks, text \in UserTexts : UserComment(t, text, FALSE)
  \/ \E t \in Tasks : CompleteTask(t, FALSE)
  \/ \E e \in MalformedEvents : MalformedPush(e)

NextLabel == LabelEnvironment \/ Webhook \/ Engine

SpecLabel == InitLabel /\ [][NextLabel]_vars

\* completions of one task, handled by up to two callbacks at once
MarkedConversation(t) ==
  [ title |-> EarlierTask(t).content, messages |-> << >>,
    createdAt |-> EarlierTask(t).added_at, lastActivityAt |-> 1 ]

InitDone ==
  /\ maxMessages = DEFAULT_MAX_MESSAGES
  /\ aiLabel = AI_LABEL
  /\ pushUp = TRUE
  /\ pushes = << >>
  /\ writeQueue = << >>
  /\ writeLockRejected = FALSE
  /\ lastPollTime = EPOCH
  /\ processedComments = << >>
  /\ proc = [p \in Procs |-> Idle]
  /\ hist = HistInit
  /\ budget = [ comments |-> 0, polls |-> 0, failures |-> 0,
                reopens |-> MaxReopens, disk |-> TRUE ]
  /\ HarnessIdle
  /\ now = 2
  /\ trackerTasks = [t \in Tasks |-> EarlierTask(t)]
  /\ nextCommentId = 2
  /\ \/ /\ store = [t \in Tasks |-> EarlierConversation(t)]
        /\ trackerComments =
             TrackerAddComment(<< >>, 1, "t1", PostedContent(Response), 2, "system")
     \/ /\ store \in { [t \in Tasks |-> NoConv], [t \in Tasks |-> MarkedConversation(t)] }
        /\ trackerComments =
             TrackerAddComment(<< >>, 1, "t1", << "hello" >>, 2, "user")

NextDone ==
  \/ \E t \in Tasks, lost \in BOOLEAN : CompleteTask(t, lost)
  \/ \E t \in Tasks : ReopenTask(t)
  \/ \E w \in DoneProcs : DeliverPush(w, Head(pushes))
  \/ \E w \in DoneProcs : WhDoneLabel(w)
  \/ \E w \in DoneProcs : HtcLoad(w)
  \/ \E w \in DoneProcs : HtcPost(w)
  \/ \E w \in DoneProcs : HtcCleanup(w)

SpecDone == InitDone /\ [][NextDone]_vars

\* the poller as the only channel: every push is dropped, the timer never
\* stops, the disk does not fail, and awaited operations eventually settle
LiveStart(disk) ==
  /\ maxMessages = DEFAULT_MAX_MESSAGES
  /\ aiLabel = AI_LABEL
  /\ pushUp = FALSE
  /\ pushes = << >>
  /\ writeQueue = << >>
  /\ writeLockRejected = FALSE
  /\ lastPollTime = EPOCH
  /\ processedComments = << >>
  /\ proc = [p \in Procs |-> Idle]
  /\ hist = HistInit
  /\ budget = [ comments |-> MaxLiveComments, polls |-> 0,
                failures |-> MaxLiveFailures, reopens |-> 0, disk |-> disk ]
  /\ HarnessIdle
  /\ now = 1
  /\ trackerTasks = [t \in Tasks |-> NoTask]
  /\ trackerComments = << >>
  /\ nextCommentId = 1
  /\ store = [t \in Tasks |-> NoConv]

InitLive == LiveStart(FALSE)

InitLiveDisk == LiveStart(TRUE)

LiveProgram ==
  \/ TimerTick("p1")
  \/ PollFetch("p1")
  \/ PtExists("p1")
  \/ PtSave("p1")
  \/ CcFetch("p1")
  \/ PntLoad("p1")
  \/ PntExec("p1")
  \/ PntSave("p1")
  \/ PntPost("p1")
  \/ HePost("p1")
  \/ PcGetTask("p1")
  \/ PcLoad("p1")
  \/ PcExec("p1")
  \/ PcSave("p1")
  \/ PcPost("p1")
  \/ PcCatchGetTask("p1")

LiveEnvironment ==
  \/ \E t \in Tasks : CreateTask(t, { AI_LABEL }, TRUE)
  \/ \E t \in Tasks : CreateTask(t, { }, TRUE)
  \/ \E t \in Tasks : RelabelTask(t, TRUE)
  \/ \E t \in Tasks, text \in UserTexts : UserComment(t, text, TRUE)

NextLive == LiveEnvironment \/ LiveProgram

SpecLive == InitLive /\ [][NextLive]_vars /\ WF_vars(LiveProgram)

SpecLiveDisk == InitLiveDisk /\ [][NextLive]_vars /\ WF_vars(LiveProgram)

----------------------------------------------------------------------------
(* Properties *)

PushCalls(cid) == Count(hist.pcCalls, << "push", cid >>)
PollCalls(cid) == Count(hist.pcCalls, << "poll", cid >>)
CommentIds == 1..(nextCommentId - 1)
InTransition == { p \in Procs : proc[p].pc \in EnginePcs }

\* C1: for every task, processNewTask synthesizes the anchor message at most
\* once and invokes the assistant for the task at most once, whatever the
\* interleaving of item:added / item:updated notifications and poll passes.
C1_InitializedAtMostOnce ==
  \A t \in Tasks : hist.anchors[t] <= 1 /\ hist.pntExec[t] <= 1

\* C2: a user comment seen by the push channel and by a poll pass is passed
\* to processComment once in total.
C2_CommentOnceAcrossChannels ==
  \A cid \in CommentIds : PushCalls(cid) + PollCalls(cid) <= 1

\* C3: at any instant at most one engine transition (processNewTask,
\* processComment, handleTaskCompletion) is executing or suspended.
C3_OneTransitionAtATime == Cardinality(InTransition) <= 1

\* C4: no comment posted by the system itself (assistant reply, error reply,
\* completion notice) is ever passed to processComment, by either channel.
C4_NoFeedbackLoop == ~ hist.systemPassed

C4_SystemCommentsCameBack ==
  /\ << "push", "system", "ai" >> \in hist.seen
  /\ << "poll", "system", "ai" >> \in hist.seen
  /\ << "push", "system", "ai+error" >> \in hist.seen
  /\ << "poll", "system", "ai+error" >> \in hist.seen
  /\ ~ hist.systemPassed

\* C5: a comment whose text starts with the assistant-reply marker or with
\* the error marker is never passed to processComment, by either adapter,
\* whoever wrote it.
C5_MarkedNeverPassed == ~ hist.markerPassed

C5_UserMarkedCommentSeenTwice ==
  /\ \E m \in { "ai", "error" } :
       /\ << "push", "user", m >> \in hist.seen
       /\ << "poll", "user", m >> \in hist.seen
  /\ ~ hist.markerPassed

\* C6: across the poll passes of one process lifetime, each comment id is
\* passed to processComment by the poll adapter at most once.
C6_PollPassesCommentOnce == \A cid \in CommentIds : PollCalls(cid) <= 1

\* C7: when the assistant invocation fails in processNewTask or
\* processComment, the conversation persisted for the task afterwards ends
\* with the user message that was appended before the invocation.
C7_FailureKeepsUserMessage == \A f \in hist.execFail : f.kept

\* C8: no engine operation rejects, whatever fails inside it, and a failed
\* transition posts at most one error reply before it completes.
C8_EngineNeverRejects == ~ hist.engineRejected /\ hist.errPostsMax <= 1

C8_ErrorReplyFailedAndCompleted ==
  /\ hist.errPostFailed
  /\ hist.recovered
  /\ hist.errPostsMax = 1
  /\ ~ hist.engineRejected

\* C9: with a bound M >= 2, once N > M messages have been appended one at a
\* time the conversation holds exactly M of them in their original order,
\* the first being the first ever appended and the last the latest appended.
IsSubsequence(sub, full) ==
  \E idx \in [1..Len(sub) -> 1..Len(full)] :
    /\ \A i \in 1..Len(sub) : sub[i] = full[idx[i]]
    /\ \A i \in 1..(Len(sub) - 1) : idx[i] < idx[i + 1]

C9_PruningShape ==
  (pm >= 2 /\ Len(plog) > pm) =>
    /\ Len(pconv.messages) = pm
    /\ pconv.messages[1] = plog[1]
    /\ pconv.messages[pm] = plog[Len(plog)]
    /\ IsSubsequence(pconv.messages, plog)

C9_PrunedMoreThanOnce ==
  /\ pm >= 2
  /\ Len(plog) >= pm + 2
  /\ Len(pconv.messages) = pm
  /\ pconv.messages[1] = plog[1]

\* C10: every persisted conversation has at most Config.maxMessages
\* messages, for every value of maxMessages that getConfig accepts.
C10_BoundedByConfig ==
  \A t \in Tasks : store[t] # NoConv => Len(store[t].messages) <= maxMessages

IsNotice(c) == c.content = PostedContent(CompletionNotice)
Notices(comments, t) ==
  Cardinality({ i \in 1..Len(comments) :
                  comments[i].task_id = t /\ IsNotice(comments[i]) })

CompletionReturns(p) == proc[p].pc = "htc_cleanup" /\ proc'[p].pc = "idle"

\* C11: handleTaskCompletion on a task whose stored conversation is non-empty
\* posts one closing notice and leaves exists(taskId) false; on a task with
\* no stored conversation it posts nothing and leaves the store unchanged;
\* the completions of one conversation post at most one notice in all.
C11_CompletionCleanup ==
  /\ [](\A t \in Tasks : Notices(trackerComments, t) <= 1)
  /\ [][\A p \in DoneProcs :
         /\ (proc[p].pc = "htc_load" /\ proc'[p].pc # "htc_load") =>
               IF store[proc[p].taskId] # NoConv
                    /\ store[proc[p].taskId].messages # << >>
                 THEN proc'[p].pc = "htc_post"
                 ELSE proc'[p].pc = "htc_cleanup"
         /\ (proc[p].pc = "htc_post" /\ proc'[p].pc # "htc_post") =>
               Notices(trackerComments', proc[p].taskId)
                 = Notices(trackerComments, proc[p].taskId) + 1
         /\ CompletionReturns(p) =>
               /\ store'[proc[p].taskId] = NoConv
               /\ Notices(trackerComments', proc[p].taskId)
                    = Notices(trackerComments, proc[p].taskId)
               /\ proc[p].conv.messages = << >> /\ store[proc[p].taskId] = NoConv
                    => store' = store
     ]_vars

Preexisting(t) ==
  /\ trackerTasks[t] # NoTask
  /\ trackerTasks[t].added_at = EarlierTask(t).added_at

Uncommented(t) == \A i \in 1..Len(trackerComments) : trackerComments[i].task_id # t

\* C12: a labelled task that existed before the process's first poll and has
\* no conversation is only marked seen (an empty conversation whose createdAt
\* is the task's creation time); the poll adapter does not invoke the
\* assistant for it while no comment has been posted on it.
C12_OldTaskOnlyMarked ==
  \A t \in Tasks :
    (Preexisting(t) /\ Uncommented(t)) =>
      /\ hist.pntExec[t] = 0
      /\ store[t] # NoConv =>
            /\ store[t].messages = << >>
            /\ store[t].createdAt = trackerTasks[t].added_at

Marked(t) == store[t] # NoConv /\ store[t].messages = << >>

\* C13: a labelled task created while a poll pass is in progress, with no
\* push for it, is neither skipped as an old task (marked seen without ever
\* being initialized) nor initialized twice.
C13_MidPassTaskInitializedOnce ==
  \A t \in hist.midPass :
    /\ ~ (Marked(t) /\ hist.pntExec[t] = 0)
    /\ hist.pntExec[t] <= 1

InTracker(t) == trackerTasks[t] # NoTask /\ Labelled(trackerTasks[t])

Replied(t) ==
  \E i \in 1..Len(trackerComments) :
    /\ trackerComments[i].task_id = t
    /\ trackerComments[i].content = PostedContent(Response)

Initialized(t) ==
  /\ store[t] # NoConv
  /\ Len(store[t].messages) >= 2
  /\ store[t].messages[1] = [role |-> "user", content |-> TaskContent(trackerTasks[t])]
  /\ Replied(t)

NothingFailed == budget.failures = MaxLiveFailures

\* C14: when every push is dropped, poll ticks keep firing and the tracker
\* and the assistant keep answering, a task that carries the trigger label
\* (from its creation or by a later relabel) eventually has its
\* conversation initialized by the poller: anchor stored, reply posted.
C14_PollInitializesTask ==
  \A t \in Tasks : [](InTracker(t) => <>(Initialized(t) \/ ~ NothingFailed))

LiveIds == 1..(2 * MaxLiveComments + 2)

\* a user comment without a reserved marker, on a labelled task
OpenComment(cid) ==
  \E i \in 1..Len(trackerComments) :
    /\ trackerComments[i].id = cid
    /\ trackerComments[i].origin = "user"
    /\ ~ IsMarked(trackerComments[i].content)
    /\ InTracker(trackerComments[i].task_id)

\* C15: when every push is dropped and poll ticks keep firing, a user
\* comment on a labelled, uncompleted task is eventually passed to
\* processComment by a poll pass.
C15_PollPassesComment ==
  \A cid \in LiveIds : [](OpenComment(cid) => <>(PollCalls(cid) >= 1))

PostedAtOf(cid) ==
  LET i == CHOOSE j \in 1..Len(trackerComments) : trackerComments[j].id = cid
  IN  trackerComments[i].posted_at

\* poll pass p enters processComment in this step
StartsCall(p) ==
  /\ proc'[p].pc = "pc_getTask"
  /\ proc'[p].ret = "poll_comments"
  /\ proc[p].pc # "pc_getTask"

\* the awaits at which a processComment call settles
CallEnds == { "pc_post", "he_post" }

\* C16: within one poll pass, a processComment call for a task starts either
\* straight after the comment fetch or in the step in which the pass's
\* previous call settles, and the comment it is given is not older than the
\* comment of that previous call, whatever order the tracker answered in.
C16_AscendingOneAtATime ==
  [][\A p \in PollProcs : StartsCall(p) =>
        \/ proc[p].pc = "cc_fetch"
        \/ /\ proc[p].pc \in CallEnds
           /\ proc[p].op = "processComment"
           /\ proc[p].taskId = proc'[p].taskId
           /\ PostedAtOf(proc[p].cid) <= PostedAtOf(proc'[p].cid)]_vars

\* a pass has gone on from one comment of a task to a later comment
C16_SecondCommentOfPass ==
  \E p \in PollProcs :
    /\ proc[p].op = "processComment"
    /\ proc[p].ret = "poll_comments"
    /\ proc[p].comments = << >>
    /\ \E cid \in CommentIds :
         /\ cid # proc[p].cid
         /\ PollCalls(cid) >= 1
         /\ CommentOrigin(cid) = "user"
         /\ PostedAtOf(cid) < PostedAtOf(proc[p].cid)

Settled(c) == calls[c].state = "resolved"

C18_OnlyFailingCallRejects ==
  \A c \in CallIds : calls[c].state = "rejected" => calls[c].ioFailed

\* the signature header is present and is not the digest of the raw body
InvalidSignature(q) == q.hasSig /\ q.sig # Digest(webhookSecret, q.raw)

\* C19: a POST /webhook request whose signature header is present and is not
\* the HMAC of the raw body, a value of another length included, is
\* answered 403 and its event is never handed to handleWebhook.
C19_InvalidSignatureRejected ==
  \A r \in ReqIds :
    (http.reqs[r].phase # "idle" /\ InvalidSignature(http.reqs[r])) =>
      (http.reqs[r].status = 403 /\ ~ http.reqs[r].started)

\* C20: the processing of a request's event starts only after the request
\* has been answered 200, the answer stays 200 whatever the processing
\* does, and a failure of the processing is caught and logged.
C20_RespondBeforeProcessing ==
  \A r \in ReqIds :
    /\ http.reqs[r].started => http.reqs[r].status = 200
    /\ http.reqs[r].phase \in { "scheduled", "queued", "running", "done" } =>
         http.reqs[r].status = 200
    /\ ~ http.reqs[r].unhandled

\* one request's processing has thrown while another's is still running
C20_FailedWhileAnotherRuns ==
  \E r, u \in ReqIds :
    /\ r # u
    /\ http.reqs[r].threw /\ http.reqs[r].status = 200
    /\ http.reqs[u].phase = "running" /\ http.reqs[u].status = 200

Running == { r \in JobIds : http.reqs[r].phase = "running" }

IsPrefix(a, b) == Len(a) <= Len(b) /\ SubSeq(b, 1, Len(a)) = a

\* C21: the jobs of the queue start in the order in which they were
\* enqueued, no job starts while another has not settled, and there is
\* never more than one processQueue loop.
C21_QueueOrderAndExclusion ==
  /\ IsPrefix(http.starts, http.order)
  /\ Cardinality(Running) <= 1
  /\ http.drains <= 1
  /\ http.drains = 1 <=> http.processing

\* the first job has settled, the second is running and the third waits
C21_SecondRunsThirdWaits ==
  /\ Len(http.starts) = 2
  /\ http.reqs[http.starts[1]].phase = "done"
  /\ Running = { http.starts[2] }
  /\ Len(http.queue) = 1

Enqueued(r) == \E i \in 1..Len(http.order) : http.order[i] = r

\* C22: when every job's promise settles, every job handed to enqueue is
\* eventually started, also after an earlier job has thrown and also when
\* it was enqueued while the loop was running or had just ended.
C22_EveryJobRuns ==
  \A r \in JobIds : [](Enqueued(r) => <>http.reqs[r].started)

\* the first two jobs threw and the third, enqueued last, has run to its end
C22_RanAfterTwoThrew ==
  /\ Len(http.starts) = 3
  /\ http.reqs[http.starts[1]].threw
  /\ http.reqs[http.starts[2]].threw
  /\ http.reqs[http.starts[3]].phase = "done"
  /\ ~ http.processing

----------------------------------------------------------------------------
(* Label gating of the push channel *)

PayloadGated == { "wh_added_getTask", "wh_upd_exists", "wh_upd_getTask" }
LookupGated == { "wh_note_label", "wh_done_label" }

\* the event a callback is handling is on a task that carries the
\* configured trigger label: in its payload for item:added / item:updated,
\* in the answer of a successful lookup for note:added / item:completed
CarriesTriggerLabel(w) ==
  IF proc[w].pc \in PayloadGated THEN aiLabel \in proc[w].labels
  ELSE /\ trackerTasks[proc[w].taskId] # NoTask
       /\ budget' = budget
       /\ aiLabel \in trackerTasks[proc[w].taskId].labels

\* C23: a push event on a task that does not carry the configured trigger
\* label (payload labels of item:added / item:updated, lookup of note:added /
\* item:completed absent or failed) invokes no engine operation, changes no
\* stored conversation and posts no comment.
C23_UnlabelledNeverProcessed ==
  [][\A w \in WebhookProcs :
       /\ proc[w].pc \in PayloadGated \cup LookupGated
       /\ ~ CarriesTriggerLabel(w)
       /\ proc'[w] # proc[w]
       => /\ proc'[w].pc \notin EnginePcs
          /\ store' = store
          /\ trackerComments' = trackerComments]_vars

\* the same with the trigger label left at its default
C23_DefaultLabelGated ==
  [][aiLabel = AI_LABEL =>
     \A w \in WebhookProcs :
       /\ proc[w].pc \in PayloadGated \cup LookupGated
       /\ ~ CarriesTriggerLabel(w)
       /\ proc'[w] # proc[w]
       => /\ proc'[w].pc \notin EnginePcs
          /\ store' = store
          /\ trackerComments' = trackerComments]_vars

----------------------------------------------------------------------------
(* Relabel suppression *)

----------------------------------------------------------------------------
(* Malformed push events *)

\* the fields a branch requires are absent from the event
FieldsAbsent(e) ==
  \/ e.event_name \in { "item:added", "item:updated", "item:completed" } /\ e.id = ""
  \/ e.event_name = "note:added" /\ (e.item_id = "" \/ e.content = << >>)

Malformed(e) == e.event_name \notin RecognizedEvents \/ FieldsAbsent(e)

\* the setImmediate callback hands the oldest queued event to handleWebhook
Delivers == pushes # << >> /\ pushes' = Tail(pushes)

\* handleWebhook returned without an engine call, a state change or a throw
Dropped ==
  /\ \A w \in WebhookProcs : proc'[w].pc = "idle"
  /\ store' = store
  /\ trackerComments' = trackerComments
  /\ writeQueue' = writeQueue
  /\ processedComments' = processedComments
  /\ hist'.headThrew = hist.headThrew

\* C25: handleWebhook given an event with an unrecognized event_name, or a
\* recognized one whose required fields are absent, invokes no engine
\* operation, changes no state and does not throw.
C25_MalformedDropped ==
  [][Delivers /\ Malformed(Head(pushes)) => Dropped]_vars

\* the same for events that carry an event_data object
C25_MalformedWithDataDropped ==
  [][Delivers /\ Malformed(Head(pushes)) /\ Head(pushes).data => Dropped]_vars

----------------------------------------------------------------------------
(* Observed tasks and their conversations *)

\* processNewTask or processComment, called by either adapter, returns
EngineReturns(p) ==
  /\ proc[p].pc \in EnginePcs
  /\ proc[p].op \in { "processNewTask", "processComment" }
  /\ proc'[p].pc \notin EnginePcs

\* the task carries the trigger label and has not been completed
OpenLabelled(t) ==
  /\ trackerTasks[t] # NoTask
  /\ hasAiLabel(trackerTasks[t])
  /\ ~ trackerTasks[t].checked

\* C26: when a processNewTask or processComment call made for a labelled,
\* uncompleted task id ends, a conversation exists for that id - also when
\* the assistant invocation or the reply post failed.
C26_ObservedTaskHasConversation ==
  [][\A p \in Procs :
       EngineReturns(p) /\ OpenLabelled(proc[p].taskId)
       => store'[proc[p].taskId] # NoConv]_vars

----------------------------------------------------------------------------
(* Shapes of the comments the system posts *)

SystemComments ==
  { trackerComments[i].content :
      i \in { j \in 1..Len(trackerComments) : trackerComments[j].origin = "system" } }

\* C27: every comment the system posts either begins with the assistant-reply
\* marker followed by the reply text, or begins with the error marker
\* followed by a diagnostic and the retry hint; an error reply, as it arrives
\* at the tracker, starts with the error marker.
C27_TwoCommentShapes ==
  \A c \in SystemComments :
    /\ MarkerOf(c) \in { "ai", "error" }
    /\ Mentions(c, ERROR_PREFIX) => StartsWith(c, ERROR_PREFIX)

----------------------------------------------------------------------------
(* The store seen by one caller *)

CallAt(i) == calls[Script[i]]

Writes == { "save", "cleanup" }

\* the last save or cleanup for key k that resolved before the caller's i-th
\* call
LastWrite(i, k) ==
  LET before == { j \in 1..(i - 1) :
                    /\ CallAt(j).state = "resolved"
                    /\ CallAt(j).op.kind \in Writes
                    /\ CallAt(j).op.taskId = k }
  IN  IF before = { } THEN 0 ELSE CHOOSE j \in before : \A h \in before : h <= j

\* the caller's i-th call is a load / exists that has returned
Loaded(i) == CallAt(i).state = "resolved" /\ CallAt(i).op.kind = "load"

StoreAfter(i) ==
  IF i < Len(Script) /\ CallAt(i + 1).state # "none" THEN CallAt(i + 1).pre ELSE store

Cleaned(i) == CallAt(i).state = "resolved" /\ CallAt(i).op.kind = "cleanup"

\* what load and exists return for an id without a conversation
ReturnedAbsent(i) ==
  /\ ~ CallAt(i).found
  /\ CallAt(i).result = createEmpty(CallAt(i).at)

C29_AbsentCleanedAndLoaded ==
  /\ Cleaned(1) /\ CallAt(1).pre[CallAt(1).op.taskId] = NoConv
  /\ Loaded(2) /\ CallAt(2).pre[CallAt(2).op.taskId] = NoConv
  /\ CallAt(2).op.taskId # CallAt(1).op.taskId

----------------------------------------------------------------------------
(* Second-opinion fallback *)

----------------------------------------------------------------------------
(* What a transition persists *)

Msg(role, content) == [role |-> role, content |-> content]

\* the save awaited by processNewTask or processComment has resolved
SavedBy(p) ==
  \/ proc[p].pc = "pnt_save" /\ proc'[p].pc = "pnt_post"
  \/ proc[p].pc = "pc_save" /\ proc'[p].pc = "pc_post"

\* the stored messages the transition builds on: the anchor alone when no
\* conversation, or an empty one, is stored
BaseMessages(t, task) ==
  IF store[t] = NoConv \/ store[t].messages = << >>
    THEN << Msg("user", TaskContent(task)) >>
    ELSE store[t].messages

----------------------------------------------------------------------------
(* Persist before post *)

SavePcs == { "pnt_save", "pc_save" }
PostPcs == { "pnt_post", "pc_post" }

\* the tracker receives a comment in this step
CommentPosted == Len(trackerComments') = Len(trackerComments) + 1

NewestComment == trackerComments'[Len(trackerComments')]

\* the last message of a conversation is the assistant's reply
EndsWithReply(conv) ==
  /\ conv # NoConv
  /\ conv.messages # << >>
  /\ conv.messages[Len(conv.messages)] = Msg("assistant", Response)

----------------------------------------------------------------------------
(* Record at emission time *)

\* the pass of p calls processComment for cid in this step
PollPasses(p, cid) ==
  /\ Count(hist'.pcCalls, << "poll", cid >>) > PollCalls(cid)
  /\ proc'[p].pc = "pc_getTask"
  /\ proc'[p].cid = cid
  /\ proc'[p] # proc[p]

InHandledSet(pcs, cid) == \E i \in 1..Len(pcs) : pcs[i] = cid

\* C33: a comment id is in the handled-set when a poll pass calls
\* processComment for it, and a comment whose processing by a poll pass has
\* failed is never passed to processComment again by a pass that started
\* after the failing one.
C33_RecordedAtEmission ==
  [][\A p \in PollProcs : \A cid \in 1..(nextCommentId - 1) :
       PollPasses(p, cid)
       => /\ InHandledSet(processedComments', cid)
          /\ \A f \in hist.pollFailed : f.cid = cid => p \in f.exempt]_vars

----------------------------------------------------------------------------
(* The handled-set on its own: addProcessedComment called id after id on a *)
(* set that is close to its ceiling.  processedComments lists the ids in   *)
(* insertion order, which is the order a Set iterates in.                  *)

Headroom == 2
MaxInserts == 4
FreshIds == 3

\* the ids 1..n, inserted in that order
Filled(n) == [i \in 1..n |-> i]

InitEvict ==
  /\ now = 1
  /\ maxMessages = DEFAULT_MAX_MESSAGES
  /\ aiLabel = AI_LABEL
  /\ pushUp = FALSE
  /\ trackerTasks = [t \in Tasks |-> NoTask]
  /\ trackerComments = << >>
  /\ nextCommentId = 1
  /\ pushes = << >>
  /\ store = [t \in Tasks |-> NoConv]
  /\ writeQueue = << >>
  /\ writeLockRejected = FALSE
  /\ lastPollTime = EPOCH
  /\ proc = [p \in Procs |-> Idle]
  /\ hist = HistInit
  /\ budget = [ comments |-> 0, polls |-> 0, failures |-> 0, reopens |-> 0,
              disk |-> TRUE ]
  /\ pm = 1
  /\ pconv = createEmpty(1)
  /\ plog = << >>
  /\ ai = NoRuns
  /\ calls = NoCalls
  /\ http = NoHttp
  /\ \E n \in (MAX_PROCESSED_COMMENTS - Headroom)..MAX_PROCESSED_COMMENTS :
       processedComments = Filled(n)

\* this.addProcessedComment(comment.id)
InsertId(id) ==
  /\ Len(plog) < MaxInserts
  /\ processedComments' = addProcessedComment(processedComments, id)
  /\ plog' = Append(plog, id)
  /\ UNCHANGED << envVars, fixedVars, store, writeQueue, writeLockRejected,
                  lastPollTime, proc, hist, budget, pm, pconv, ai, calls, http >>

\* an id never seen, in any order of arrival
InsertFresh ==
  \E k \in 1..FreshIds : InsertId(MAX_PROCESSED_COMMENTS + k)

\* the oldest id of the set, or its newest, once more
InsertKnown ==
  \E i \in { 1, Len(processedComments) } : InsertId(processedComments[i])

NextEvict == InsertFresh \/ InsertKnown

SpecEvict == InitEvict /\ [][NextEvict]_vars

Inserted == plog'[Len(plog')]

Ids(pcs) == { pcs[i] : i \in 1..Len(pcs) }

\* C34: after every addProcessedComment call the handled-set holds at most
\* MAX_PROCESSED_COMMENTS ids and contains the id just inserted; an
\* insertion that takes the set over the ceiling evicts exactly the
\* EVICT_COUNT oldest-inserted ids, one tenth of the ceiling, and any other
\* insertion evicts nothing.
C34_BoundedFifoEviction ==
  [][plog' # plog =>
       LET before == Ids(processedComments)
           after == Ids(processedComments')
           evicted == (before \cup { Inserted }) \ after
       IN  /\ Len(processedComments') <= MAX_PROCESSED_COMMENTS
           /\ Cardinality(after) = Len(processedComments')
           /\ Inserted \in after
           /\ after \subseteq before \cup { Inserted }
           /\ IF Cardinality(before \cup { Inserted }) > MAX_PROCESSED_COMMENTS
                THEN /\ evicted = { processedComments[i] : i \in 1..EVICT_COUNT }
                     /\ 10 * EVICT_COUNT = MAX_PROCESSED_COMMENTS
                ELSE evicted = { }]_vars

\* an insertion has taken the set over the ceiling: the oldest ids are gone
\* and the id just inserted is the newest of the set
C34_EvictedOldest ==
  /\ plog # << >>
  /\ Len(processedComments) = MAX_PROCESSED_COMMENTS + 1 - EVICT_COUNT
  /\ processedComments[1] = EVICT_COUNT + 1
  /\ processedComments[Len(processedComments)] = plog[Len(plog)]

----------------------------------------------------------------------------
(* Overlapping poll ticks *)

\* processNewTask calls made by poll passes for task t
PollInitializations(t) == hist.pntExec[t]

\* C35: also when a poll pass is still running while the timer starts the
\* next one, each comment id is passed to processComment at most once by the
\* poll passes and each task is initialized at most once.
C35_OverlappingTicksSafe ==
  /\ \A cid \in 1..(nextCommentId - 1) : Count(hist.pcCalls, << "poll", cid >>) <= 1
  /\ \A t \in Tasks : PollInitializations(t) <= 1

----------------------------------------------------------------------------
(* The poll tick boundary *)

\* C36: the lastPollTime recorded at the end of a poll pass is never earlier
\* than the value recorded by a pass that ended before it, also when passes
\* overlap or a pass fails part-way.
C36_BoundaryNeverMovesBack == [][lastPollTime' >= lastPollTime]_vars

----------------------------------------------------------------------------
(* Two comments on one task, one channel each: the process starts again    *)
(* with a stored conversation, the user comments twice and one poll pass   *)
(* runs beside the webhook.                                                *)

MaxPairComments == 2
MaxPairPolls == 1
MaxPairFailures == 1

InitPair ==
  Restart(DEFAULT_MAX_MESSAGES, TRUE, MaxPairComments, MaxPairPolls, MaxPairFailures)

NextPair ==
  \/ \E t \in Tasks, text \in UserTexts, lost \in BOOLEAN : UserComment(t, text, lost)
  \/ DeliverPush("w1", Head(pushes))
  \/ WhNoteLabel("w1")
  \/ PollTick("p1")
  \/ PollFetch("p1")
  \/ PtExists("p1")
  \/ CcFetch("p1")
  \/ \E p \in { "w1", "p1" } : PcGetTask(p)
  \/ \E p \in { "w1", "p1" } : PcLoad(p)
  \/ \E p \in { "w1", "p1" } : PcExec(p)
  \/ \E p \in { "w1", "p1" } : PcSave(p)
  \/ \E p \in { "w1", "p1" } : PcPost(p)
  \/ \E p \in { "w1", "p1" } : PcCatchGetTask(p)
  \/ \E p \in { "w1", "p1" } : HePost(p)

SpecPair == InitPair /\ [][NextPair]_vars

\* replies of successful transitions for task t that are on the tracker
RepliesPosted(t) ==
  Cardinality({ i \in 1..Len(trackerComments) :
                  /\ trackerComments[i].task_id = t
                  /\ trackerComments[i].content = PostedContent(Response) })

Stored(t, role) ==
  Cardinality({ i \in 1..Len(store[t].messages) : store[t].messages[i].role = role })

\* no comment was passed to processComment more than once
EachCommentOnce ==
  \A cid \in 1..(nextCommentId - 1) : PushCalls(cid) + PollCalls(cid) <= 1

\* C37: when user comments on one task have each been processed
\* successfully, by push, by poll or one by each, the persisted conversation
\* holds an assistant reply and a user message for every reply that has been
\* posted: no exchange is overwritten by another load-invoke-save cycle.
C37_NoLostUpdate ==
  \A t \in Tasks :
    EachCommentOnce /\ store[t] # NoConv
    => /\ Stored(t, "assistant") >= RepliesPosted(t)
       /\ Stored(t, "user") >= RepliesPosted(t)

----------------------------------------------------------------------------
(* No resurrection after completion *)

\* the write that resolves in this step creates the conversation of t
Creates(t) == store[t] = NoConv /\ store'[t] # NoConv

\* C38: once handleTaskCompletion for a task has finished with the
\* conversation removed, no conversation is created for the task by work
\* that was already in flight when the completion was handled; exists(taskId)
\* stays false until a new event is taken up.
C38_NoResurrection ==
  [][\A t \in Tasks : \A f \in hist.stale :
       ~ (f.t = t /\ Creates(t) /\ Head(writeQueue).p = f.p)]_vars

----------------------------------------------------------------------------
(* ConversationRepository when the document cannot be read *)

\* what loadAll returns from its catch
EmptyDocument == [k \in StoreKeys |-> NoConv]

\* `const data = await this.loadAll()` of a chained operation when readFile
\* rejects or JSON.parse throws: loadAll returns {}
ChainLoadAllFails(c) ==
  /\ ~ writeLockRejected
  /\ budget.disk /\ CanFail /\ Failed
  /\ \E i \in Runnable(writeQueue) :
       /\ writeQueue[i].p = c
       /\ ~ calls[c].read
       /\ calls' = [calls EXCEPT ![c].read = TRUE, ![c].data = EmptyDocument]
  /\ UNCHANGED << envVars, fixedVars, store, writeQueue, writeLockRejected,
                  lastPollTime, processedComments, proc, hist, pm, pconv,
                  plog, ai, http >>

NextFault ==
  \/ \E c \in CallIds, k \in StoreKeys : RepoCall(c, "save", k)
  \/ \E c \in CallIds, k \in StoreKeys : RepoCall(c, "cleanup", k)
  \/ \E c \in CallIds : ChainLoadAll(c)
  \/ \E c \in CallIds : ChainLoadAllFails(c)
  \/ \E c \in CallIds : ChainWrite(c)
  \/ \E c \in CallIds : ChainSkip(c)

SpecFault == InitStore /\ [][NextFault]_vars

\* the call c settles in this step
CallSettles(c) == calls[c].state = "pending" /\ calls'[c].state # "pending"

\* C39: a save or cleanup call leaves the stored conversation of every other
\* task id unchanged in every outcome, also when reading the document fails
\* or yields unparsable content during the call's read-modify-write.
C39_WritesTouchOwnKey ==
  [][\A c \in CallIds : CallSettles(c) =>
        \A k \in StoreKeys \ { calls[c].op.taskId } : store'[k] = store[k]]_vars

----------------------------------------------------------------------------
(* Completion seen by the poller alone: every push is dropped, that of the *)
(* completion included, and the timer never stops                          *)

NextLiveDone ==
  \/ LiveEnvironment
  \/ \E t \in Tasks : CompleteTask(t, TRUE)
  \/ LiveProgram

SpecLiveDone == InitLive /\ [][NextLiveDone]_vars /\ WF_vars(LiveProgram)

Completed(t) == trackerTasks[t] # NoTask /\ trackerTasks[t].checked

\* C40: when the push for a task's completion is dropped and poll ticks keep
\* firing, the conversation of the completed task is eventually removed
\* from the store by the poll channel.
C40_CompletionCleanedByPoll ==
  \A t \in Tasks : [](Completed(t) => <>(store[t] = NoConv))

====
